---- MODULE Spec2Model ----
(***************************************************************************)
(* Model of the layout and rendering pipeline of mcp-draw-arch:            *)
(*   ArchitectureSchema.parse -> LayoutEngine.generateLayout ->            *)
(*   ExcalidrawRenderer.render, driven by                                  *)
(*   SemanticArchitectureGenerator.generateDiagram.                        *)
(*                                                                         *)
(* The repository carries two revisions of the renderer and of the schema  *)
(* (both are in src/lib/core/renderer.js); rev = 1 is the first, rev = 2   *)
(* the second.  There is one layout engine.                                *)
(*                                                                         *)
(* Coordinates are kept in quarter units (4 per drawing unit), so that     *)
(* every division by 2 the code performs on them is exact.                 *)
(***************************************************************************)
EXTENDS Integers, Sequences, FiniteSets, TLC

VARIABLES
  rev,        \* which revision of schema.js and renderer.js is installed
  input,      \* the architectureDescription handed to generateDiagram
  pc,         \* "idle" before the call, then "returned" or "thrown"
  validated,  \* generateDiagram's validatedArchitecture
  laidOut,    \* generateDiagram's layout
  result,     \* the value generateDiagram returned
  thrown,     \* the error generateDiagram threw
  idCounter,  \* ExcalidrawRenderer.idCounter of the generator's renderer
  now,        \* Date.now() as the call read it
  console,    \* the lines written with console.warn and console.error
  calls,      \* the calls a long-running process made, in the order they began
  layering,   \* assignLayers' locals: queue, visited, layers, currentLayer
  workflow    \* the architecture workflow: its graph position and its state

vars ==
  <<rev, input, pc, validated, laidOut, result, thrown, idCounter, now, console,
    calls, layering, workflow>>

(***************************************************************************)
(* Bounds of the model                                                     *)
(***************************************************************************)
MaxNodes == 2
MaxConns == 2
MaxClock == 1

\* The longest node list of the grid inputs
MaxGridNodes == 4

\* The calls a long-running process makes
MaxCalls == 2

\* The connections of the denser graphs
MaxDenseConns == 3

(***************************************************************************)
(* Generic helpers                                                         *)
(***************************************************************************)
\* n drawing units in the quarter units the coordinates are kept in.
Px(n) == 4 * n

\* v / 2 on a coordinate (exact: see above).
Half(v) == v \div 2

null == "null"

Has(r, k) == k \in DOMAIN r

Min2(a, b) == IF a <= b THEN a ELSE b

Max2(a, b) == IF a >= b THEN a ELSE b

Abs(a) == IF a >= 0 THEN a ELSE 0 - a

Indices(s) == 1..Len(s)

MapSeq(s, F(_)) == [i \in 1..Len(s) |-> F(s[i])]

RECURSIVE Flatten(_)
Flatten(ss) == IF ss = <<>> THEN <<>> ELSE Head(ss) \o Flatten(Tail(ss))

Revisions == {1, 2}

(***************************************************************************)
(* schema.js                                                               *)
(***************************************************************************)
NodeTypeSchema ==
  {"actor", "service", "database", "queue", "cache", "gateway", "ui", "external"}

ConnectionTypeSchema == {"http", "async", "query", "sync", "data_flow", "none"}

GroupTypeSchema == {"layer", "boundary", "cluster"}

LayoutTypeSchema == {"hierarchical", "grid", "force", "layered"}

DirectionSchema == {"TB", "BT", "LR", "RL"}

\* NODE_STYLES: shape and size per node type (sizes in drawing units).
NODE_STYLES(r) ==
  IF r = 1
  THEN [actor    |-> [shape |-> "ellipse",   width |-> 120, height |-> 80],
        service  |-> [shape |-> "rectangle", width |-> 140, height |-> 80],
        database |-> [shape |-> "rectangle", width |-> 120, height |-> 80],
        queue    |-> [shape |-> "rectangle", width |-> 130, height |-> 70],
        cache    |-> [shape |-> "rectangle", width |-> 110, height |-> 70],
        gateway  |-> [shape |-> "diamond",   width |-> 100, height |-> 100],
        ui       |-> [shape |-> "rectangle", width |-> 130, height |-> 80],
        external |-> [shape |-> "rectangle", width |-> 120, height |-> 80]]
  ELSE [actor    |-> [shape |-> "ellipse",   width |-> 120, height |-> 80],
        service  |-> [shape |-> "rectangle", width |-> 140, height |-> 80],
        database |-> [shape |-> "rectangle", width |-> 120, height |-> 80],
        queue    |-> [shape |-> "rectangle", width |-> 130, height |-> 70],
        cache    |-> [shape |-> "rectangle", width |-> 110, height |-> 60],
        gateway  |-> [shape |-> "diamond",   width |-> 140, height |-> 100],
        ui       |-> [shape |-> "rectangle", width |-> 150, height |-> 90],
        external |-> [shape |-> "rectangle", width |-> 120, height |-> 80]]

\* CONNECTION_STYLES: the connection types that have a style entry.
CONNECTION_STYLES(r) ==
  IF r = 1 THEN {"http", "async", "query", "sync", "data_flow"}
  ELSE {"http", "async", "query", "sync", "data_flow", "none"}

\* A record with the key k only when present is TRUE (an optional field).
Opt(present, k, v) == IF present THEN (k :> v) ELSE <<>>

\* NodeSchema.parse: required id, type (enum), label; unknown keys are
\* stripped.  Revision 2 adds the optional, recursively validated `nodes`.
RECURSIVE NodeValid(_, _)
NodeValid(r, n) ==
  /\ n.type \in NodeTypeSchema
  /\ (r = 2 /\ Has(n, "nodes")) =>
        \A i \in Indices(n.nodes) : NodeValid(r, n.nodes[i])

RECURSIVE ParseNode(_, _)
ParseNode(r, n) ==
  [id |-> n.id, type |-> n.type, label |-> n.label]
    @@ Opt(r = 2 /\ Has(n, "nodes"), "nodes",
           [i \in Indices(IF Has(n, "nodes") THEN n.nodes ELSE <<>>) |->
               ParseNode(r, n.nodes[i])])

\* ConnectionSchema.parse
ConnectionValid(c) == c.type \in ConnectionTypeSchema

ParseConnection(c) ==
  [from |-> c.from, to |-> c.to, type |-> c.type, bidirectional |-> FALSE]
    @@ Opt(Has(c, "label"), "label", IF Has(c, "label") THEN c.label ELSE null)
    @@ Opt(Has(c, "id"), "id", IF Has(c, "id") THEN c.id ELSE null)

\* GroupSchema.parse: revision 1 requires `contains` (node ids), revision 2
\* requires `nodes` (node objects); the other key is unknown and stripped.
GroupValid(r, g) ==
  /\ Has(g, "type") => g.type \in GroupTypeSchema
  /\ IF r = 1 THEN Has(g, "contains")
     ELSE /\ Has(g, "nodes")
          /\ \A i \in Indices(g.nodes) : NodeValid(r, g.nodes[i])

ParseGroup(r, g) ==
  [id |-> g.id, label |-> g.label,
   type |-> IF Has(g, "type") THEN g.type ELSE "boundary"]
    @@ (IF r = 1 THEN [contains |-> g.contains]
        ELSE [nodes |-> [i \in Indices(g.nodes) |-> ParseNode(r, g.nodes[i])]])

\* A JavaScript number standing where the schema expects an object.
JsNumber(n) == [number |-> n]

\* The layout object of ArchitectureSchema.
LayoutValid(l) ==
  /\ Has(l, "type") => l.type \in LayoutTypeSchema
  /\ Has(l, "direction") => l.direction \in DirectionSchema
  /\ Has(l, "spacing") => ~Has(l.spacing, "number")

ParseLayout(l) ==
  [type |-> IF Has(l, "type") THEN l.type ELSE "hierarchical",
   direction |-> IF Has(l, "direction") THEN l.direction ELSE "TB"]
    @@ Opt(Has(l, "spacing"), "spacing",
           IF Has(l, "spacing")
           THEN [node |-> IF Has(l.spacing, "node") THEN l.spacing.node ELSE 80,
                 rank |-> IF Has(l.spacing, "rank") THEN l.spacing.rank ELSE 100]
           ELSE null)

\* ArchitectureSchema.safeParse(a).success
ArchitectureValid(r, a) ==
  /\ \A i \in Indices(a.nodes) : NodeValid(r, a.nodes[i])
  /\ \A i \in Indices(a.connections) : ConnectionValid(a.connections[i])
  /\ Has(a, "groups") => \A i \in Indices(a.groups) : GroupValid(r, a.groups[i])
  /\ Has(a, "layout") => LayoutValid(a.layout)

\* ArchitectureSchema.parse(a) for a valid a: defaults applied, unknown keys
\* stripped.
ParseArchitecture(r, a) ==
  [nodes |-> [i \in Indices(a.nodes) |-> ParseNode(r, a.nodes[i])],
   connections |-> [i \in Indices(a.connections) |-> ParseConnection(a.connections[i])],
   groups |-> IF Has(a, "groups")
              THEN [i \in Indices(a.groups) |-> ParseGroup(r, a.groups[i])]
              ELSE <<>>]
    @@ Opt(Has(a, "layout"), "layout",
           IF Has(a, "layout") THEN ParseLayout(a.layout) ELSE null)

(***************************************************************************)
(* JavaScript values the code relies on                                    *)
(***************************************************************************)
\* The maps of layout.js (graph, nodeMap) are plain objects ({}): a lookup
\* of a key that is no own property finds the properties inherited from
\* Object.prototype, which are truthy and are no node.
ObjectPrototypeKeys ==
  {"constructor", "toString", "toLocaleString", "valueOf", "hasOwnProperty",
   "isPrototypeOf", "propertyIsEnumerable", "__proto__"}

\* obj[key] is truthy
Truthy(obj, key) == key \in DOMAIN obj \/ key \in ObjectPrototypeKeys

\* NaN: the result of arithmetic on undefined.  It is kept apart from every
\* coordinate by lying far outside the canvas; the N-operators propagate it.
NaN == 0 - 1000000000

IsNaN(v) == v = NaN

NAdd(a, b) == IF IsNaN(a) \/ IsNaN(b) THEN NaN ELSE a + b

NSub(a, b) == IF IsNaN(a) \/ IsNaN(b) THEN NaN ELSE a - b

NHalf(a) == IF IsNaN(a) THEN NaN ELSE Half(a)

NMin(a, b) == IF IsNaN(a) \/ IsNaN(b) THEN NaN ELSE Min2(a, b)

NAbs(a) == IF IsNaN(a) THEN NaN ELSE Abs(a)

\* a == b on numbers (NaN equals nothing)
NumEq(a, b) == ~IsNaN(a) /\ ~IsNaN(b) /\ a = b

(***************************************************************************)
(* layout.js: LayoutEngine                                                 *)
(***************************************************************************)
CanvasWidth == 1200

CanvasHeight == 800

CanvasPadding == 50

GroupPadding == 20

typeOrder ==
  <<"actor", "ui", "gateway", "service", "queue", "cache", "database", "external">>

\* NODE_STYLES[node.type] || NODE_STYLES.service
StyleOf(r, type) ==
  IF type \in DOMAIN NODE_STYLES(r) THEN NODE_STYLES(r)[type]
  ELSE NODE_STYLES(r)["service"]

\* { ...node, x, y, width, height, style }
Positioned(node, x, y, style) ==
  [x |-> x, y |-> y, width |-> Px(style.width), height |-> Px(style.height),
   style |-> style] @@ node

NodeIds(nodes) == {nodes[i].id : i \in Indices(nodes)}

\* buildDependencyGraph: graph[id] = { incoming, outgoing }, filled in the
\* order of the connections; a connection is used when both graph[conn.from]
\* and graph[conn.to] are truthy.
GraphEdge(nodes, c) ==
  /\ c.from \in NodeIds(nodes)
  /\ c.to \in NodeIds(nodes)

\* graph[conn.from].outgoing.push or graph[conn.to].incoming.push is a
\* TypeError when the truthy value is an inherited property and no graph entry.
BuildDependencyGraphThrows(nodes, connections) ==
  LET graph == [id \in NodeIds(nodes) |-> TRUE]
  IN \E i \in Indices(connections) :
        /\ Truthy(graph, connections[i].from)
        /\ Truthy(graph, connections[i].to)
        /\ ~GraphEdge(nodes, connections[i])

BuildDependencyGraph(nodes, connections) ==
  [id \in NodeIds(nodes) |->
     [incoming |->
        LET cs == SelectSeq(connections,
                            LAMBDA c : GraphEdge(nodes, c) /\ c.to = id)
        IN [i \in Indices(cs) |-> cs[i].from],
      outgoing |->
        LET cs == SelectSeq(connections,
                            LAMBDA c : GraphEdge(nodes, c) /\ c.from = id)
        IN [i \in Indices(cs) |-> cs[i].to]]]

\* groupNodesByType putting every node in a layer of its own, in input order
GroupNodesByType_OneLayerPerNode(nodes) ==
  [i \in Indices(nodes) |-> <<nodes[i]>>]

\* groupNodesByType: one layer per type of typeOrder that occurs, then one
\* layer for the nodes of any other type.
RECURSIVE TypeLayers(_, _)
TypeLayers(nodes, k) ==
  IF k > Len(typeOrder) THEN <<>>
  ELSE LET nodesOfType == SelectSeq(nodes, LAMBDA n : n.type = typeOrder[k])
       IN (IF Len(nodesOfType) > 0 THEN <<nodesOfType>> ELSE <<>>)
            \o TypeLayers(nodes, k + 1)

GroupNodesByType(nodes) ==
  LET inOrder == {typeOrder[k] : k \in Indices(typeOrder)}
      remainingNodes == SelectSeq(nodes, LAMBDA n : n.type \notin inOrder)
  IN TypeLayers(nodes, 1)
       \o (IF Len(remainingNodes) > 0 THEN <<remainingNodes>> ELSE <<>>)

\* nodes.find(n => n.id === depId): the first node with that id
FindNode(nodes, id) ==
  nodes[CHOOSE i \in Indices(nodes) :
          /\ nodes[i].id = id
          /\ \A j \in 1..(i - 1) : nodes[j].id # id]

\* queue.forEach placing every queued node, visited or not
RECURSIVE ProcessQueue_PlaceVisited(_, _, _, _, _)
ProcessQueue_PlaceVisited(nodes, graph, queue, k, acc) ==
  IF k > Len(queue) THEN acc
  ELSE LET node == queue[k]
           visited == acc.visited \cup {node.id}
           deps == IF node.id \in acc.visited THEN <<>>
                   ELSE SelectSeq(graph[node.id].outgoing, LAMBDA depId :
                           depId \in NodeIds(nodes) /\ depId \notin visited)
       IN ProcessQueue_PlaceVisited(nodes, graph, queue, k + 1,
            [visited |-> visited,
             layer |-> Append(acc.layer, node),
             nextQueue |-> acc.nextQueue
                \o [i \in Indices(deps) |-> FindNode(nodes, deps[i])]])

\* The body of queue.forEach in assignLayers, from queue position k on:
\* acc = [visited, layer, nextQueue].
RECURSIVE ProcessQueue(_, _, _, _, _)
ProcessQueue(nodes, graph, queue, k, acc) ==
  IF k > Len(queue) THEN acc
  ELSE LET node == queue[k]
       IN IF node.id \in acc.visited
          THEN ProcessQueue(nodes, graph, queue, k + 1, acc)
          ELSE LET visited == acc.visited \cup {node.id}
                   out == graph[node.id].outgoing
                   deps == SelectSeq(out, LAMBDA depId :
                              depId \in NodeIds(nodes) /\ depId \notin visited)
               IN ProcessQueue(nodes, graph, queue, k + 1,
                    [visited |-> visited,
                     layer |-> Append(acc.layer, node),
                     nextQueue |-> acc.nextQueue
                        \o [i \in Indices(deps) |-> FindNode(nodes, deps[i])]])

\* The while loop of assignLayers: st = [layers, visited].
RECURSIVE BfsLayers(_, _, _, _)
BfsLayers(nodes, graph, queue, st) ==
  IF Len(queue) = 0 THEN st
  ELSE LET r == ProcessQueue(nodes, graph, queue, 1,
                  [visited |-> st.visited, layer |-> <<>>, nextQueue |-> <<>>])
       IN BfsLayers(nodes, graph, r.nextQueue,
                    [layers |-> Append(st.layers, r.layer), visited |-> r.visited])

\* assignLayers ranking the roots first and every other node second
AssignLayers_RootsThenRest(nodes, graph) ==
  LET rootNodes == SelectSeq(nodes, LAMBDA n : Len(graph[n.id].incoming) = 0)
      rest == SelectSeq(nodes, LAMBDA n : Len(graph[n.id].incoming) # 0)
  IN IF Len(rootNodes) = 0 THEN GroupNodesByType(nodes)
     ELSE IF Len(rest) > 0 THEN <<rootNodes, rest>> ELSE <<rootNodes>>

\* assignLayers putting all nodes in one layer
AssignLayers_SingleLayer(nodes, graph) == <<nodes>>

\* assignLayers without its closing pass over the unvisited nodes
AssignLayers_DropUnvisited(nodes, graph) ==
  LET rootNodes == SelectSeq(nodes, LAMBDA n : Len(graph[n.id].incoming) = 0)
  IN IF Len(rootNodes) = 0 THEN GroupNodesByType(nodes)
     ELSE BfsLayers(nodes, graph, rootNodes, [layers |-> <<>>, visited |-> {}]).layers

\* assignLayers
AssignLayers(nodes, graph) ==
  LET rootNodes == SelectSeq(nodes, LAMBDA n : Len(graph[n.id].incoming) = 0)
  IN IF Len(rootNodes) = 0 THEN GroupNodesByType(nodes)
     ELSE LET bfs == BfsLayers(nodes, graph, rootNodes,
                               [layers |-> <<>>, visited |-> {}])
              rest == SelectSeq(nodes, LAMBDA n : n.id \notin bfs.visited)
          IN IF Len(rest) > 0 THEN Append(bfs.layers, rest) ELSE bfs.layers

\* positionNodesInLayers (positionLayeredNodes delegates to it): the nodes of
\* all layers, layer by layer.
PositionNode(r, layer, layerIndex, nodeIndex, direction, spacing) ==
  LET node == layer[nodeIndex + 1]
      style == StyleOf(r, node.type)
      n == Len(layer)
      totalWidth == n * style.width + (n - 1) * spacing.node
      startX == Half(Px(CanvasWidth - totalWidth))
      totalHeight == n * style.height + (n - 1) * spacing.node
      startY == Half(Px(CanvasHeight - totalHeight))
      x == IF direction \in {"TB", "BT"}
           THEN startX + Px(nodeIndex * (style.width + spacing.node))
           ELSE IF direction = "LR"
                THEN Px(CanvasPadding + layerIndex * (style.width + spacing.rank))
                ELSE Px(CanvasWidth - CanvasPadding
                          - (layerIndex + 1) * (style.width + spacing.rank))
      y == IF direction \in {"TB", "BT"}
           THEN IF direction = "TB"
                THEN Px(CanvasPadding + layerIndex * (style.height + spacing.rank))
                ELSE Px(CanvasHeight - CanvasPadding
                          - (layerIndex + 1) * (style.height + spacing.rank))
           ELSE startY + Px(nodeIndex * (style.height + spacing.node))
  IN Positioned(node, x, y, style)

PositionNodesInLayers(r, layers, direction, spacing) ==
  Flatten([l \in Indices(layers) |->
             [k \in Indices(layers[l]) |->
                PositionNode(r, layers[l], l - 1, k - 1, direction, spacing)]])

\* nodeMap[node.id] = node for every positioned node, in order: the last node
\* with an id wins.
NodeMap(positionedNodes) ==
  [id \in NodeIds(positionedNodes) |->
     positionedNodes[CHOOSE i \in Indices(positionedNodes) :
        /\ positionedNodes[i].id = id
        /\ \A j \in (i + 1)..Len(positionedNodes) : positionedNodes[j].id # id]]

\* What the geometry code reads of nodeMap[id]: x, y, width, height, which
\* are undefined (NaN in arithmetic) on an inherited property.
NodeRect(nodeMap, id) ==
  IF id \in DOMAIN nodeMap
  THEN [x |-> nodeMap[id].x, y |-> nodeMap[id].y,
        width |-> nodeMap[id].width, height |-> nodeMap[id].height]
  ELSE [x |-> NaN, y |-> NaN, width |-> NaN, height |-> NaN]

\* a > b on numbers (false when either is NaN)
NGt(a, b) == ~IsNaN(a) /\ ~IsNaN(b) /\ a > b

\* calculateOptimalConnectionPoints anchoring both ends at the node centres
CalculateOptimalConnectionPoints_Centres(fromNode, toNode) ==
  [fromPoint |-> [x |-> NAdd(fromNode.x, NHalf(fromNode.width)),
                  y |-> NAdd(fromNode.y, NHalf(fromNode.height))],
   toPoint |-> [x |-> NAdd(toNode.x, NHalf(toNode.width)),
                y |-> NAdd(toNode.y, NHalf(toNode.height))]]

\* calculateOptimalConnectionPoints
CalculateOptimalConnectionPoints(fromNode, toNode) ==
  LET fromCenter == [x |-> NAdd(fromNode.x, NHalf(fromNode.width)),
                     y |-> NAdd(fromNode.y, NHalf(fromNode.height))]
      toCenter == [x |-> NAdd(toNode.x, NHalf(toNode.width)),
                   y |-> NAdd(toNode.y, NHalf(toNode.height))]
      dx == NSub(toCenter.x, fromCenter.x)
      dy == NSub(toCenter.y, fromCenter.y)
  IN IF NGt(NAbs(dx), NAbs(dy))
     THEN IF NGt(dx, 0)
          THEN [fromPoint |-> [x |-> NAdd(fromNode.x, fromNode.width), y |-> fromCenter.y],
                toPoint |-> [x |-> toNode.x, y |-> toCenter.y]]
          ELSE [fromPoint |-> [x |-> fromNode.x, y |-> fromCenter.y],
                toPoint |-> [x |-> NAdd(toNode.x, toNode.width), y |-> toCenter.y]]
     ELSE IF NGt(dy, 0)
          THEN [fromPoint |-> [x |-> fromCenter.x, y |-> NAdd(fromNode.y, fromNode.height)],
                toPoint |-> [x |-> toCenter.x, y |-> toNode.y]]
          ELSE [fromPoint |-> [x |-> fromCenter.x, y |-> fromNode.y],
                toPoint |-> [x |-> toCenter.x, y |-> NAdd(toNode.y, toNode.height)]]

\* The connections calculateConnectionPaths keeps: both nodeMap[conn.from]
\* and nodeMap[conn.to] are truthy.
ConnectionKept(nodeMap, conn) ==
  Truthy(nodeMap, conn.from) /\ Truthy(nodeMap, conn.to)

\* calculateConnectionPaths: { ...conn, fromPoint, toPoint, id }
CalculateConnectionPaths(connections, positionedNodes) ==
  LET nodeMap == NodeMap(positionedNodes)
      kept == SelectSeq(connections, LAMBDA c : ConnectionKept(nodeMap, c))
  IN [i \in Indices(kept) |->
        [id |-> IF Has(kept[i], "id") THEN kept[i].id
                ELSE "conn_" \o kept[i].from \o "_" \o kept[i].to]
          @@ CalculateOptimalConnectionPoints(NodeRect(nodeMap, kept[i].from),
                                              NodeRect(nodeMap, kept[i].to))
          @@ kept[i]]

\* The console.warn lines of calculateConnectionPaths
ConnectionWarnings(connections, positionedNodes) ==
  LET nodeMap == NodeMap(positionedNodes)
      dropped == SelectSeq(connections, LAMBDA c : ~ConnectionKept(nodeMap, c))
  IN [i \in Indices(dropped) |->
        "Connection references missing node: " \o dropped[i].from
           \o " -> " \o dropped[i].to]

RECURSIVE NMinOf(_)
NMinOf(vs) ==
  IF Len(vs) = 1 THEN vs[1] ELSE NMin(vs[1], NMinOf(Tail(vs)))

NMax(a, b) == IF IsNaN(a) \/ IsNaN(b) THEN NaN ELSE Max2(a, b)

RECURSIVE NMaxOf(_)
NMaxOf(vs) ==
  IF Len(vs) = 1 THEN vs[1] ELSE NMax(vs[1], NMaxOf(Tail(vs)))

\* calculateBounds of a list of rectangles
CalculateBounds(rects) ==
  IF Len(rects) = 0
  THEN [minX |-> 0, minY |-> 0, maxX |-> 0, maxY |-> 0, width |-> 0, height |-> 0]
  ELSE LET minX == NMinOf([i \in Indices(rects) |-> rects[i].x])
           minY == NMinOf([i \in Indices(rects) |-> rects[i].y])
           maxX == NMaxOf([i \in Indices(rects) |-> NAdd(rects[i].x, rects[i].width)])
           maxY == NMaxOf([i \in Indices(rects) |-> NAdd(rects[i].y, rects[i].height)])
       IN [minX |-> minX, minY |-> minY, maxX |-> maxX, maxY |-> maxY,
           width |-> NSub(maxX, minX), height |-> NSub(maxY, minY)]

\* group.contains.map(...) is a TypeError on a group without `contains`.
PositionGroupsThrows(groups) ==
  \E i \in Indices(groups) : ~Has(groups[i], "contains")

\* The members of a group that nodeMap resolves (filter(Boolean))
ContainedNodes(group, nodeMap) ==
  LET ids == SelectSeq(group.contains, LAMBDA id : Truthy(nodeMap, id))
  IN [i \in Indices(ids) |-> NodeRect(nodeMap, ids[i])]

\* positionGroups: groups with no resolved member are left out.
PositionGroups(groups, positionedNodes) ==
  LET nodeMap == NodeMap(positionedNodes)
      kept == SelectSeq(groups, LAMBDA g : Len(ContainedNodes(g, nodeMap)) > 0)
  IN [i \in Indices(kept) |->
        LET bounds == CalculateBounds(ContainedNodes(kept[i], nodeMap))
        IN [x |-> NSub(bounds.minX, Px(GroupPadding)),
            y |-> NSub(bounds.minY, Px(GroupPadding)),
            width |-> NAdd(bounds.width, 2 * Px(GroupPadding)),
            height |-> NAdd(bounds.height, 2 * Px(GroupPadding))] @@ kept[i]]

\* Math.ceil(Math.sqrt(n))
CeilSqrt(n) == CHOOSE c \in 0..n : c * c >= n /\ \A d \in 0..(c - 1) : d * d < n

\* layoutConfig.spacing || { node: 80, rank: rank }
SpacingOr(layoutConfig, rank) ==
  IF Has(layoutConfig, "spacing") THEN layoutConfig.spacing
  ELSE [node |-> 80, rank |-> rank]

\* layoutConfig.direction || 'TB'
DirectionOf(layoutConfig) ==
  IF Has(layoutConfig, "direction") THEN layoutConfig.direction ELSE "TB"

\* The result object the three layout generators share.  positionGroups
\* runs, and may throw, after calculateConnectionPaths wrote its warnings.
LayoutResult(positionedNodes, connections, groups) ==
  IF PositionGroupsThrows(groups)
  THEN [ok |-> FALSE, error |-> "TypeError",
        console |-> ConnectionWarnings(connections, positionedNodes)]
  ELSE [ok |-> TRUE,
        nodes |-> positionedNodes,
        connections |-> CalculateConnectionPaths(connections, positionedNodes),
        groups |-> PositionGroups(groups, positionedNodes),
        bounds |-> CalculateBounds(positionedNodes)]

GenerateHierarchicalLayout(r, nodes, connections, groups, layoutConfig) ==
  IF BuildDependencyGraphThrows(nodes, connections)
  THEN [ok |-> FALSE, error |-> "TypeError", console |-> <<>>]
  ELSE LET dependencyGraph == BuildDependencyGraph(nodes, connections)
           layers == AssignLayers(nodes, dependencyGraph)
       IN LayoutResult(
            PositionNodesInLayers(r, layers, DirectionOf(layoutConfig),
                                  SpacingOr(layoutConfig, 100)),
            connections, groups)

GenerateGridLayout(r, nodes, connections, groups, layoutConfig) ==
  LET spacing == SpacingOr(layoutConfig, 100)
      cols == CeilSqrt(Len(nodes))
  IN LayoutResult(
       [i \in Indices(nodes) |->
          LET index == i - 1
              row == index \div cols
              col == index % cols
              style == StyleOf(r, nodes[i].type)
          IN Positioned(nodes[i],
               Px(CanvasPadding + col * (style.width + spacing.node)),
               Px(CanvasPadding + row * (style.height + spacing.rank)),
               style)],
       connections, groups)

GenerateLayeredLayout(r, nodes, connections, groups, layoutConfig) ==
  LayoutResult(
    PositionNodesInLayers(r, GroupNodesByType(nodes), DirectionOf(layoutConfig),
                          SpacingOr(layoutConfig, 120)),
    connections, groups)

\* generateLayout with a switch whose default case is the grid layout
GenerateLayout_DefaultGrid(r, architecture) ==
  LET layout == IF Has(architecture, "layout") THEN architecture.layout ELSE <<>>
      layoutType == IF Has(layout, "type") THEN layout.type ELSE "hierarchical"
      nodes == architecture.nodes
      connections == architecture.connections
      groups == architecture.groups
  IN CASE layoutType = "hierarchical" ->
            GenerateHierarchicalLayout(r, nodes, connections, groups, layout)
       [] layoutType = "layered" ->
            GenerateLayeredLayout(r, nodes, connections, groups, layout)
       [] OTHER ->
            GenerateGridLayout(r, nodes, connections, groups, layout)

\* generateLayout: dispatch on layout.type, default hierarchical
GenerateLayout(r, architecture) ==
  LET layout == IF Has(architecture, "layout") THEN architecture.layout ELSE <<>>
      layoutType == IF Has(layout, "type") THEN layout.type ELSE "hierarchical"
      nodes == architecture.nodes
      connections == architecture.connections
      groups == architecture.groups
  IN CASE layoutType = "hierarchical" ->
            GenerateHierarchicalLayout(r, nodes, connections, groups, layout)
       [] layoutType = "grid" ->
            GenerateGridLayout(r, nodes, connections, groups, layout)
       [] layoutType = "layered" ->
            GenerateLayeredLayout(r, nodes, connections, groups, layout)
       [] OTHER ->
            GenerateHierarchicalLayout(r, nodes, connections, groups, layout)

(***************************************************************************)
(* renderer.js: ExcalidrawRenderer                                         *)
(*                                                                         *)
(* Of each element the model keeps id, type, geometry and the binding      *)
(* fields; the colours, stroke attributes, random seeds and timestamps     *)
(* are left out.  A JavaScript null object is the empty record.            *)
(***************************************************************************)
NullObject == <<>>

\* generateId(): `${Date.now()}_${++this.idCounter}`, counter being the value
\* of idCounter before the call.
GenerateId(t, counter) == ToString(t) \o "_" \o ToString(counter + 1)

\* getExcalidrawShapeType
GetExcalidrawShapeType(shapeType) ==
  IF shapeType \in {"rectangle", "ellipse", "diamond"} THEN shapeType
  ELSE "rectangle"

\* Math.min(node.label.length * 9, node.width - 20)
TextWidth(node) == Min2(Px(Len(node.label) * 9), node.width - Px(20))

\* The shape and the text of renderNode; counter is idCounter on entry.
\* Revision 1 pushes the text onto the shape's boundElements; revision 2
\* leaves boundElements empty.
NodeShape(r, node, t, counter, textId) ==
  [id |-> "node_" \o GenerateId(t, counter),
   type |-> GetExcalidrawShapeType(node.style.shape),
   x |-> node.x, y |-> node.y, width |-> node.width, height |-> node.height,
   boundElements |-> IF r = 1 THEN <<[type |-> "text", id |-> textId]>> ELSE <<>>]

\* The text of renderNode placed at the shape's top left corner
NodeText_TopLeft(node, t, counter, shapeId, top) ==
  [id |-> "text_" \o GenerateId(t, counter),
   type |-> "text",
   x |-> node.x + Px(10),
   y |-> node.y + Px(10),
   width |-> TextWidth(node), height |-> Px(20),
   text |-> node.label,
   verticalAlign |-> "top",
   containerId |-> shapeId]

NodeText(node, t, counter, shapeId, top) ==
  [id |-> "text_" \o GenerateId(t, counter),
   type |-> "text",
   x |-> node.x + Half(node.width - TextWidth(node)),
   y |-> IF top THEN node.y + Px(10) ELSE node.y + Half(node.height - Px(20)),
   width |-> TextWidth(node), height |-> Px(20),
   text |-> node.label,
   verticalAlign |-> IF top THEN "top" ELSE "middle",
   containerId |-> shapeId]

\* node.nodes && node.nodes.length > 0 (revision 2)
HasSubNodes(r, node) == r = 2 /\ Has(node, "nodes") /\ Len(node.nodes) > 0

\* renderNode.  In revision 2 a node with sub-nodes calls renderNode on each
\* of them; a sub-node is a validated NodeSchema object, which carries no
\* style, so the first sub-node's `style.shape` is a TypeError, raised after
\* that call drew its shape id.
RenderNode(r, node, t, counter) ==
  LET textId == "text_" \o GenerateId(t, counter + 1)
      shape == NodeShape(r, node, t, counter, textId)
      text == NodeText(node, t, counter + 1, shape.id, HasSubNodes(r, node))
  IN IF HasSubNodes(r, node)
     THEN [ok |-> FALSE, elements |-> <<shape, text>>, counter |-> counter + 3]
     ELSE [ok |-> TRUE, elements |-> <<shape, text>>, counter |-> counter + 2]

\* The arrow of renderConnection
ConnectionArrow(r, connection, t, counter) ==
  LET fromPoint == connection.fromPoint
      toPoint == connection.toPoint
  IN IF r = 1
     THEN [id |-> "conn_" \o GenerateId(t, counter),
           type |-> "arrow",
           x |-> NMin(fromPoint.x, toPoint.x),
           y |-> NMin(fromPoint.y, toPoint.y),
           width |-> NAbs(NSub(toPoint.x, fromPoint.x)),
           height |-> NAbs(NSub(toPoint.y, fromPoint.y)),
           points |-> << <<0, 0>>,
                         <<NSub(toPoint.x, NMin(fromPoint.x, toPoint.x)),
                           NSub(toPoint.y, NMin(fromPoint.y, toPoint.y))>> >>,
           startBinding |-> [elementId |-> connection.from, focus |-> 0, gap |-> 0],
           endBinding |-> [elementId |-> connection.to, focus |-> 0, gap |-> 0]]
     ELSE [id |-> "arrow_" \o GenerateId(t, counter),
           type |-> "arrow",
           x |-> fromPoint.x,
           y |-> fromPoint.y,
           width |-> NSub(toPoint.x, fromPoint.x),
           height |-> NSub(toPoint.y, fromPoint.y),
           points |-> << <<0, 0>>,
                         <<NSub(toPoint.x, fromPoint.x),
                           NSub(toPoint.y, fromPoint.y)>> >>,
           startBinding |-> NullObject,
           endBinding |-> NullObject]

\* s.trim() === '' for the labels of the model (no other white space occurs)
IsBlank(s) == s \in {"", " ", "  "}

\* Revision 1: connection.label; revision 2: connection.label &&
\* connection.label.trim() !== ''
HasConnectionLabel(r, connection) ==
  /\ Has(connection, "label")
  /\ connection.label # ""
  /\ r = 2 => ~IsBlank(connection.label)

\* Math.min(processedLabel.length * 7, 150)
EstimatedWidth(label) == Min2(Px(Len(label) * 7), Px(150))

\* The label of renderConnection.  Revision 1 offsets the label from the
\* midpoint by 15 units along the normal of the segment (sin and cos of its
\* angle): that position is not kept.  Revision 2 centres it on the midpoint.
ConnectionLabel(r, connection, t, counter) ==
  [id |-> "label_" \o GenerateId(t, counter),
   type |-> "text",
   text |-> connection.label,
   width |-> EstimatedWidth(connection.label), height |-> Px(16),
   containerId |-> null]
    @@ (IF r = 1 THEN <<>>
        ELSE LET fromPoint == connection.fromPoint
                 toPoint == connection.toPoint
                 labelX == NAdd(fromPoint.x, NHalf(NSub(toPoint.x, fromPoint.x)))
                 labelY == NAdd(fromPoint.y, NHalf(NSub(toPoint.y, fromPoint.y)))
             IN [x |-> NSub(labelX, Half(EstimatedWidth(connection.label))),
                 y |-> NSub(labelY, Half(Px(16)))])

RenderConnection(r, connection, t, counter) ==
  IF HasConnectionLabel(r, connection)
  THEN [ok |-> TRUE,
        elements |-> <<ConnectionArrow(r, connection, t, counter),
                       ConnectionLabel(r, connection, t, counter + 1)>>,
        counter |-> counter + 2]
  ELSE [ok |-> TRUE,
        elements |-> <<ConnectionArrow(r, connection, t, counter)>>,
        counter |-> counter + 1]

\* renderGroup: the boundary rectangle and its label
RenderGroup(r, group, t, counter) ==
  [ok |-> TRUE,
   elements |->
     << [id |-> "group_" \o GenerateId(t, counter),
         type |-> "rectangle",
         x |-> group.x, y |-> group.y,
         width |-> group.width, height |-> group.height,
         boundElements |-> <<>>],
        [id |-> "group_label_" \o GenerateId(t, counter + 1),
         type |-> "text",
         x |-> NAdd(group.x, Px(10)), y |-> NSub(group.y, Px(25)),
         width |-> Px(100), height |-> Px(20),
         text |-> group.label,
         verticalAlign |-> "top",
         containerId |-> null] >>,
   counter |-> counter + 2]

RenderItem(r, kind, item, t, counter) ==
  CASE kind = "group" -> RenderGroup(r, item, t, counter)
    [] kind = "node" -> RenderNode(r, item, t, counter)
    [] kind = "connection" -> RenderConnection(r, item, t, counter)

\* items.forEach(item => elements.push(...render<Kind>(item))), from item k
\* on; acc = [ok, elements, counter].  An exception ends the loop.
RECURSIVE RenderEach(_, _, _, _, _, _)
RenderEach(r, kind, items, k, t, acc) ==
  IF ~acc.ok \/ k > Len(items) THEN acc
  ELSE LET one == RenderItem(r, kind, items[k], t, acc.counter)
       IN RenderEach(r, kind, items, k + 1, t,
            [ok |-> one.ok,
             elements |-> IF one.ok THEN acc.elements \o one.elements
                          ELSE acc.elements,
             counter |-> one.counter])

\* render: groups first, then nodes, then connections
Render(r, layout, t, counter) ==
  LET groups == RenderEach(r, "group", layout.groups, 1, t,
                           [ok |-> TRUE, elements |-> <<>>, counter |-> counter])
      nodes == RenderEach(r, "node", layout.nodes, 1, t, groups)
  IN RenderEach(r, "connection", layout.connections, 1, t, nodes)

\* The Document render returns
Document(elements) ==
  [type |-> "excalidraw", version |-> 2, source |-> "draw-arch-dsl-renderer",
   elements |-> elements,
   appState |-> [viewBackgroundColor |-> "#ffffff", gridSize |-> 20,
                 zoom |-> [value |-> 1], scrollX |-> 0, scrollY |-> 0]]

(***************************************************************************)
(* The inputs of the model                                                 *)
(***************************************************************************)
TypeSample == {"service", "gateway"}

LabelOf(type) ==
  CASE type = "service" -> "API Server"
    [] type = "database" -> "Orders DB"
    [] type = "actor" -> "User"
    [] OTHER -> "Gateway"

IdOf(i) == "n" \o ToString(i)

\* An id that names no node, and one that names no node but a property every
\* JavaScript object inherits.
DanglingIds == {"ghost", "constructor"}

NodeOf(i, type) == [id |-> IdOf(i), type |-> type, label |-> LabelOf(type)]

\* Node lists with distinct ids n1, n2, ...
NodeLists ==
  UNION {{[i \in 1..n |-> NodeOf(i, types[i])] : types \in [1..n -> TypeSample]}
          : n \in 0..MaxNodes}

\* The node lists of n nodes with distinct ids
NodeListsOfLen(n) ==
  {[i \in 1..n |-> NodeOf(i, types[i])] : types \in [1..n -> TypeSample]}

\* The last node takes the id of the first (a duplicate id).
WithDuplicateId(nodes) ==
  [i \in Indices(nodes) |->
     IF i = Len(nodes) THEN [nodes[i] EXCEPT !.id = nodes[1].id] ELSE nodes[i]]

\* The first node carries one nested child node.
WithSubNode(nodes) ==
  [i \in Indices(nodes) |->
     IF i = 1
     THEN nodes[i] @@ [nodes |-> <<[id |-> "sub1", type |-> "service",
                                    label |-> "Worker"]>>]
     ELSE nodes[i]]

NodeListVariants ==
  NodeLists
    \cup {WithSubNode(ns) : ns \in {l \in NodeLists : Len(l) >= 1}}
    \cup {WithDuplicateId(ns) : ns \in {l \in NodeLists : Len(l) >= 2}}
    \cup {WithSubNode(WithDuplicateId(ns)) : ns \in {l \in NodeLists : Len(l) >= 2}}

\* The endpoints of a connection: any two nodes, or the first node (any
\* dangling id when there is none) and a dangling id.
FirstId(nodes) == IF Len(nodes) > 0 THEN {nodes[1].id} ELSE DanglingIds

EndpointPairs(nodes) ==
  (NodeIds(nodes) \X NodeIds(nodes))
    \cup (FirstId(nodes) \X DanglingIds) \cup (DanglingIds \X FirstId(nodes))

\* The endpoints of the connections of a graph: any two nodes, or a
\* connection to the id that names nothing and one from the inherited one.
GraphPairs(nodes) ==
  (NodeIds(nodes) \X NodeIds(nodes))
    \cup (FirstId(nodes) \X {"ghost"}) \cup ({"constructor"} \X FirstId(nodes))

RECURSIVE SeqsUpTo(_, _)
SeqsUpTo(S, n) ==
  IF n = 0 THEN {<<>>}
  ELSE LET shorter == SeqsUpTo(S, n - 1)
       IN shorter \cup {Append(q, e) : q \in {p \in shorter : Len(p) = n - 1}, e \in S}

ConnectionOf(pair, labelled) ==
  [from |-> pair[1], to |-> pair[2], type |-> "http"]
    @@ (IF labelled THEN [label |-> "calls"] ELSE <<>>)

\* Every list of at most MaxConns connections between the pairs
ConnectionLists(pairs, labelled) ==
  {[i \in Indices(ps) |-> ConnectionOf(ps[i], labelled)] : ps \in SeqsUpTo(pairs, MaxConns)}

LayoutSample ==
  {[type |-> "hierarchical", direction |-> d] : d \in DirectionSchema}
    \cup {[type |-> "layered", direction |-> d] : d \in {"TB", "LR"}}
    \cup {[type |-> "force", direction |-> d] : d \in {"TB", "RL"}}
    \cup {[type |-> "grid"], [type |-> "circular"]}

GroupSample(nodes) ==
  LET first == IF Len(nodes) > 0 THEN <<nodes[1].id>> ELSE <<>>
  IN {[id |-> "g1", label |-> "Backend", contains |-> first \o <<"ghost">>],
      [id |-> "g2", label |-> "Legacy", contains |-> <<"ghost">>],
      [id |-> "g4", label |-> "Core", contains |-> first \o <<"constructor">>],
      [id |-> "g3", label |-> "Workers", type |-> "cluster",
       nodes |-> <<[id |-> "m1", type |-> "service", label |-> "Worker"]>>]}

\* Ranking: every connection graph under the default (hierarchical) layout,
\* the one layout whose node positions depend on the connections.
GraphInput(a) ==
  \E ns \in NodeLists :
     \E cs \in ConnectionLists(GraphPairs(ns), TRUE) :
        a = [nodes |-> ns, connections |-> cs]

\* Routing: one connection (or none) under every layout type and direction.
LayoutInput(a) ==
  \E ns \in NodeLists, l \in LayoutSample :
     \E cs \in {<<>>} \cup {<<ConnectionOf(p, TRUE)>> : p \in EndpointPairs(ns)} :
        a = [nodes |-> ns, connections |-> cs, layout |-> l]

\* Structure: duplicate ids, nested nodes, groups, explicit spacing.
StructureInput(a) ==
  \E ns \in NodeListVariants :
     \E cs \in {<<>>} \cup {<<ConnectionOf(<<ns[1].id, ns[Len(ns)].id>>, FALSE)>>
                               : k \in {1} \cap Indices(ns)},
        g \in {<<>>} \cup {[groups |-> <<x>>] : x \in GroupSample(ns)},
        l \in {<<>>,
               [layout |-> [type |-> "grid", spacing |-> [node |-> 35]]],
               [layout |-> [type |-> "layered"]]} :
        a = [nodes |-> ns, connections |-> cs] @@ g @@ l

\* Node types spread over the type order, for the ranking by type
RankTypeSample == {"database", "service", "actor"}

\* The connections i -> i + 1 and last -> first: every node has an incoming
\* connection.
CycleOver(nodes) ==
  [i \in Indices(nodes) |->
     ConnectionOf(<<nodes[i].id, nodes[(i % Len(nodes)) + 1].id>>, FALSE)]

\* Ranking by type: nodes of RankTypeSample in every input order, without
\* connections or on one cycle, under the layered and hierarchical layouts.
RankInput(a) ==
  \E types \in [1..(MaxNodes + 1) -> RankTypeSample],
     l \in {<<>>, [layout |-> [type |-> "layered"]],
            [layout |-> [type |-> "hierarchical", direction |-> "LR"]]} :
     LET ns == [i \in 1..(MaxNodes + 1) |-> NodeOf(i, types[i])]
     IN \E cs \in {<<>>, CycleOver(ns)} :
           a = [nodes |-> ns, connections |-> cs] @@ l

\* Pairs: two nodes of any two types, the connection from the first to the
\* second, hierarchical layout in every direction.
PairInput(a) ==
  \E u, s \in NodeTypeSchema, d \in DirectionSchema :
     a = [nodes |-> <<NodeOf(1, u), NodeOf(2, s)>>,
          connections |-> <<ConnectionOf(<<IdOf(1), IdOf(2)>>, FALSE)>>,
          layout |-> [type |-> "hierarchical", direction |-> d]]

\* Labels: the empty label, a short one and one wider than any shape
LabelSample == {"", "DB", "Order management back-office"}

\* One node of any type with a label of LabelSample.
LabelInput(a) ==
  \E type \in NodeTypeSchema, label \in LabelSample :
     a = [nodes |-> <<[id |-> IdOf(1), type |-> type, label |-> label]>>,
          connections |-> <<>>]

\* The endpoints of the denser graphs over n nodes: every forward pair
\* i -> j (i < j), the closing pair n -> 1 and the self-connection n -> n.
DensePairs(n) ==
  {<<IdOf(q[1]), IdOf(q[2])>> :
      q \in {p \in (1..n) \X (1..n) :
                p[1] < p[2] \/ p = <<n, 1>> \/ p = <<n, n>>}}

\* Denser graphs: one node more than MaxNodes, all services, and every list
\* of at most MaxDenseConns connections over DensePairs, hierarchical.
DenseInput(a) ==
  LET n == MaxNodes + 1
  IN \E ps \in SeqsUpTo(DensePairs(n), MaxDenseConns) :
        a = [nodes |-> [i \in 1..n |-> NodeOf(i, "service")],
             connections |-> [i \in Indices(ps) |-> ConnectionOf(ps[i], FALSE)]]

\* Node types of the greatest and the least height and width
ChainTypeSample == {"gateway", "cache"}

\* Chains: MaxGridNodes nodes of ChainTypeSample, each connected to the next,
\* hierarchical in every direction: one node per rank.
ChainInput(a) ==
  \E types \in [1..MaxGridNodes -> ChainTypeSample], d \in DirectionSchema :
     a = [nodes |-> [i \in 1..MaxGridNodes |-> NodeOf(i, types[i])],
          connections |-> [i \in 1..(MaxGridNodes - 1) |->
                             ConnectionOf(<<IdOf(i), IdOf(i + 1)>>, FALSE)],
          layout |-> [type |-> "hierarchical", direction |-> d]]

\* Grids: the longer node lists, which fill more than one row and column.
GridInput(a) ==
  \E n \in (MaxNodes + 1)..MaxGridNodes :
     \E ns \in NodeListsOfLen(n),
        l \in {[type |-> "grid"], [type |-> "grid", spacing |-> [node |-> 35]]} :
        a = [nodes |-> ns, connections |-> <<>>, layout |-> l]

(***************************************************************************)
(* The state machine                                                       *)
(***************************************************************************)
Init ==
  /\ rev \in Revisions
  /\ \/ GraphInput(input)
     \/ LayoutInput(input)
     \/ StructureInput(input)
     \/ GridInput(input)
     \/ RankInput(input)
     \/ PairInput(input)
     \/ LabelInput(input)
     \/ DenseInput(input)
     \/ ChainInput(input)
  /\ pc = "idle"
  /\ validated = NullObject
  /\ laidOut = NullObject
  /\ result = NullObject
  /\ thrown = "none"
  /\ idCounter = 0
  /\ now = 0
  /\ console = <<>>
  /\ calls = <<>>
  /\ layering = NullObject
  /\ workflow = NullObject

\* What one call of generateDiagram(a) does, for idCounter = counter and
\* Date.now() = t on entry: validate, lay out, render; any exception is logged
\* and rethrown.
Failure(error, v, l, counter, lines) ==
  [pc |-> "thrown", thrown |-> error, validated |-> v, laidOut |-> l,
   result |-> NullObject, idCounter |-> counter,
   console |-> Append(lines, "Error generating semantic architecture diagram")]

\* Step 3 done: render returned, or threw.
Step3Outcome(validatedArchitecture, lay, warned, rendered) ==
  IF ~rendered.ok
  THEN Failure("TypeError", validatedArchitecture, lay, rendered.counter, warned)
  ELSE [pc |-> "returned", thrown |-> "none",
        validated |-> validatedArchitecture, laidOut |-> lay,
        result |-> Document(rendered.elements),
        idCounter |-> rendered.counter,
        console |-> warned]

\* Step 2 done: generateLayout returned lay, or threw; then step 3.
Step2Outcome(r, validatedArchitecture, lay, t, counter) ==
  IF ~lay.ok
  THEN Failure(lay.error, validatedArchitecture, NullObject, counter, lay.console)
  ELSE Step3Outcome(validatedArchitecture, lay,
                    ConnectionWarnings(validatedArchitecture.connections, lay.nodes),
                    Render(r, lay, t, counter))

\* Step 2 run by a layout engine that spaces the nodes by the clock
Step1Outcome_TimeSeeded(r, validatedArchitecture, t, counter) ==
  Step2Outcome(r, validatedArchitecture,
               GenerateLayout(r, [layout |-> [type |-> "hierarchical",
                                              direction |-> "TB",
                                              spacing |-> [node |-> 80 + t,
                                                           rank |-> 100 + t]]]
                                   @@ validatedArchitecture),
               t, counter)

\* Step 1 done: the input parsed to validatedArchitecture; then step 2.
Step1Outcome(r, validatedArchitecture, t, counter) ==
  Step2Outcome(r, validatedArchitecture, GenerateLayout(r, validatedArchitecture),
               t, counter)

Outcome(r, a, t, counter) ==
  IF ~ArchitectureValid(r, a)
  THEN Failure("ZodError", NullObject, NullObject, counter, <<>>)
  ELSE Step1Outcome(r, ParseArchitecture(r, a), t, counter)

\* The call ends with outcome o.
Completes(o) ==
  /\ pc' = o.pc
  /\ thrown' = o.thrown
  /\ validated' = o.validated
  /\ laidOut' = o.laidOut
  /\ result' = o.result
  /\ idCounter' = o.idCounter
  /\ console' = console \o o.console

\* SemanticArchitectureGenerator.generateDiagram(architectureDescription).
\* The function awaits nothing, so the call is one step.  The call reads the
\* clock: Date.now() = t.
GenerateDiagram ==
  /\ pc = "idle"
  /\ \E t \in 0..MaxClock :
        /\ now' = t
        /\ Completes(Outcome(rev, input, t, idCounter))
  /\ UNCHANGED <<rev, input, calls, layering, workflow>>

Next == GenerateDiagram

Spec == Init /\ [][Next]_vars

(***************************************************************************)
(* A long-running process                                                  *)
(*                                                                         *)
(* The process holds one GenerateArchitectureTool, whose generator (and    *)
(* so whose layout engine and renderer) lives as long as the tool, and     *)
(* runs the workflow's renderDiagram node, which builds a generator per    *)
(* call.  Every call is handed the same architecture.  idCounter is the    *)
(* counter of the tool's renderer, now the last value read from the clock. *)
(* generateDiagram awaits nothing, so it runs to its end inside the step   *)
(* that calls it; the caller's `await` then suspends the caller, and the   *)
(* suspended callers resume in the order they were suspended.              *)
(***************************************************************************)
\* Inputs of the process: every node list, plain or with a nested node, with
\* or without a labelled connection and a group, under three layout types.
ProcessInput(a) ==
  \E ns \in NodeLists \cup {WithSubNode(l) : l \in {m \in NodeLists : Len(m) = 1}} :
     \E cs \in {<<>>} \cup {<<ConnectionOf(<<ns[1].id, ns[Len(ns)].id>>, TRUE)>>
                               : k \in {1} \cap Indices(ns)},
        g \in {<<>>, [groups |-> <<[id |-> "g1", label |-> "Backend",
                                    contains |-> <<IdOf(1), "ghost">>]>>]},
        l \in {<<>>, [layout |-> [type |-> "grid"]],
               [layout |-> [type |-> "layered", direction |-> "RL"]]} :
        a = [nodes |-> ns, connections |-> cs] @@ g @@ l

InitProcess ==
  /\ rev \in Revisions
  /\ ProcessInput(input)
  /\ pc = "idle"
  /\ validated = NullObject
  /\ laidOut = NullObject
  /\ result = NullObject
  /\ thrown = "none"
  /\ idCounter = 0
  /\ now = 0
  /\ console = <<>>
  /\ calls = <<>>
  /\ layering = NullObject
  /\ workflow = NullObject

\* What the process keeps of a call: who made it, the counter of its renderer
\* on entry and on exit, the clock it read, and how generateDiagram ended.
CallRecord(via, o, counter, t) ==
  [via |-> via, status |-> "awaiting", start |-> counter, end |-> o.idCounter,
   at |-> t, pc |-> o.pc, thrown |-> o.thrown, laidOut |-> o.laidOut,
   result |-> o.result]

\* The caller that resumes next: the one suspended first.
NextToResume(i) ==
  /\ calls[i].status = "awaiting"
  /\ \A j \in 1..(i - 1) : calls[j].status # "awaiting"

\* generateDiagram ended with outcome o, its counter updates lost
ToolGenerated_CounterLost(o, t) ==
  /\ now' = t
  /\ idCounter' = idCounter
  /\ console' = console \o o.console
  /\ calls' = Append(calls, CallRecord("tool", o, idCounter, t))

\* this.generator.generateDiagram(input) ended with outcome o at clock t.
ToolGenerated(o, t) ==
  /\ now' = t
  /\ idCounter' = o.idCounter
  /\ console' = console \o o.console
  /\ calls' = Append(calls, CallRecord("tool", o, idCounter, t))

\* GenerateArchitectureTool._call(input), up to its await.
ToolCall ==
  /\ Len(calls) < MaxCalls
  /\ \E t \in now..MaxClock : ToolGenerated(Outcome(rev, input, t, idCounter), t)
  /\ UNCHANGED <<rev, input, pc, validated, laidOut, result, thrown, layering,
                 workflow>>

\* GenerateArchitectureTool._call resumes: it returns the Document as JSON,
\* or the rejection of generateDiagram passes to its caller.
ToolReturn ==
  /\ \E i \in Indices(calls) :
        /\ calls[i].via = "tool"
        /\ NextToResume(i)
        /\ calls' = [calls EXCEPT ![i].status =
                       IF calls[i].pc = "returned" THEN "resolved" ELSE "rejected"]
  /\ UNCHANGED <<rev, input, pc, validated, laidOut, result, thrown, idCounter,
                 now, console, layering, workflow>>

\* generator.generateDiagram(state.semanticDSL) on the new generator ended
\* with outcome o at clock t.
WorkflowGenerated(o, t) ==
  /\ now' = t
  /\ console' = console \o o.console
  /\ calls' = Append(calls, CallRecord("workflow", o, 0, t))

\* renderDiagram(state), up to its await: a new SemanticArchitectureGenerator,
\* whose renderer counts from 0.
RenderDiagramCall ==
  /\ Len(calls) < MaxCalls
  /\ \E t \in now..MaxClock : WorkflowGenerated(Outcome(rev, input, t, 0), t)
  /\ UNCHANGED <<rev, input, pc, validated, laidOut, result, thrown, idCounter,
                 layering, workflow>>

\* renderDiagram resumes: the state with excalidrawData, or the catch block,
\* which logs and returns the state with the error added.
RenderDiagramReturn ==
  /\ \E i \in Indices(calls) :
        /\ calls[i].via = "workflow"
        /\ NextToResume(i)
        /\ calls' = [calls EXCEPT ![i].status =
                       IF calls[i].pc = "returned" THEN "completed" ELSE "failed"]
        /\ console' = IF calls[i].pc = "returned" THEN console
                      ELSE Append(console, "Diagram rendering failed")
  /\ UNCHANGED <<rev, input, pc, validated, laidOut, result, thrown, idCounter, now,
                 layering, workflow>>

NextProcess ==
  \/ ToolCall
  \/ ToolReturn
  \/ RenderDiagramCall
  \/ RenderDiagramReturn

SpecProcess == InitProcess /\ [][NextProcess]_vars

(***************************************************************************)
(* assignLayers, statement by statement                                    *)
(* generateHierarchicalLayout has built the dependency graph of a valid    *)
(* architecture and calls assignLayers(nodes, dependencyGraph); one step   *)
(* is the search for the roots, one pass of the while loop, or the closing *)
(* pass over the unvisited nodes.                                          *)
(***************************************************************************)
LayeringInput(a) ==
  \/ GraphInput(a)
  \/ DenseInput(a)
  \/ \E types \in [1..(MaxNodes + 1) -> RankTypeSample] :
        LET ns == [i \in 1..(MaxNodes + 1) |-> NodeOf(i, types[i])]
        IN a = [nodes |-> ns, connections |-> CycleOver(ns)]

\* The locals of assignLayers at position at.
Locals(at, queue, visited, layers, currentLayer) ==
  [pc |-> at, queue |-> queue, visited |-> visited, layers |-> layers,
   currentLayer |-> currentLayer]

InitLayers ==
  /\ rev \in {1, 2}
  /\ LayeringInput(input)
  /\ ArchitectureValid(rev, input)
  /\ ~BuildDependencyGraphThrows(input.nodes, input.connections)
  /\ pc = "idle"
  /\ validated = ParseArchitecture(rev, input)
  /\ laidOut = NullObject
  /\ result = NullObject
  /\ thrown = "none"
  /\ idCounter = 0
  /\ now = 0
  /\ console = <<>>
  /\ calls = <<>>
  /\ layering = Locals("entry", <<>>, {}, <<>>, 0)
  /\ workflow = NullObject

dependencyGraph == BuildDependencyGraph(validated.nodes, validated.connections)

\* const rootNodes = nodes.filter(...); without roots the layers are those of
\* groupNodesByType, else the queue starts as the roots.
FindRootNodes ==
  /\ layering.pc = "entry"
  /\ LET rootNodes == SelectSeq(validated.nodes,
                         LAMBDA n : Len(dependencyGraph[n.id].incoming) = 0)
     IN layering' =
          IF Len(rootNodes) = 0
          THEN Locals("returned", <<>>, {}, GroupNodesByType(validated.nodes), 0)
          ELSE Locals("while", rootNodes, {}, <<>>, 0)
  /\ UNCHANGED <<rev, input, pc, validated, laidOut, result, thrown, idCounter,
                 now, console, calls, workflow>>

\* The locals after the pass r of queue.forEach.
AfterPass(r) ==
  Locals("while", r.nextQueue, r.visited, Append(layering.layers, r.layer),
         layering.currentLayer + 1)

\* One pass of while (queue.length > 0): the layer of the queued nodes not
\* yet visited, and the next queue.
WhilePass ==
  /\ layering.pc = "while"
  /\ Len(layering.queue) > 0
  /\ layering' = AfterPass(ProcessQueue(validated.nodes, dependencyGraph,
                    layering.queue, 1,
                    [visited |-> layering.visited, layer |-> <<>>,
                     nextQueue |-> <<>>]))
  /\ UNCHANGED <<rev, input, pc, validated, laidOut, result, thrown, idCounter,
                 now, console, calls, workflow>>

\* The queue is empty: the unvisited nodes make up one more layer, and
\* assignLayers returns.
AddRemaining ==
  /\ layering.pc = "while"
  /\ Len(layering.queue) = 0
  /\ LET rest == SelectSeq(validated.nodes,
                           LAMBDA n : n.id \notin layering.visited)
     IN layering' = [layering EXCEPT
          !.pc = "returned",
          !.layers = IF Len(rest) > 0 THEN Append(@, rest) ELSE @]
  /\ UNCHANGED <<rev, input, pc, validated, laidOut, result, thrown, idCounter,
                 now, console, calls, workflow>>

NextLayers ==
  \/ FindRootNodes
  \/ WhilePass
  \/ AddRemaining

\* assignLayers is synchronous code: a statement that can run does run.
SpecLayers == InitLayers /\ [][NextLayers]_vars /\ WF_vars(NextLayers)

(***************************************************************************)
(* The architecture workflow                                               *)
(* executeArchitectureWorkflow(description) compiles the graph of          *)
(* createWorkflowGraph and invokes it on createInitialState(description).  *)
(* The graph engine runs one node at a time: the node returns the whole    *)
(* state, which replaces the state's channels, and the node's routing      *)
(* function names the next node; an exception of a node or of a routing    *)
(* function rejects invoke.  Every LLM call either resolves with           *)
(* well-formed JSON or fails (a rejection, or JSON.parse throwing).        *)
(***************************************************************************)
maxRetries == 3

recursionLimit == 50

GridThreshold == 8

DescriptionSample == {"React frontend and Node.js backend", "order pipeline"}

ArchitectureTypeSample == {"microservices", "layered", "event-driven"}

\* The node lists the LLM answers identify_components with: none, one, more
\* than two services, more than GridThreshold.
ComponentLists ==
  {[i \in 1..n |-> NodeOf(i, "service")] : n \in {0, 1, MaxNodes + 1, GridThreshold + 1}}

\* The connection lists the LLM answers analyze_relationships with.
RelationshipLists ==
  {[i \in 1..n |-> ConnectionOf(<<IdOf(1), IdOf(2)>>, TRUE)] : n \in 0..MaxConns}

LlmFailed == [ok |-> FALSE]

\* { ...state, ...update }
Spread(state, update) == update @@ state

\* state.errors && state.errors.length > 0
HasErrors(state) == Has(state, "errors") /\ Len(state.errors) > 0

\* The catch block of a node: the error is added, retryCount incremented.
Caught(state, message) ==
  Spread(state,
    [errors |-> Append(IF Has(state, "errors") THEN state.errors ELSE <<>>, message),
     retryCount |-> (IF Has(state, "retryCount") THEN state.retryCount ELSE 0) + 1])

createInitialState(description) ==
  [description |-> description, currentStep |-> "analyze_architecture",
   errors |-> <<>>, retryCount |-> 0]

\* analyzeArchitecture(state), the LLM answering with analysis
analyzeArchitecture(state, analysis) ==
  IF analysis.ok
  THEN Spread(state,
         [architectureType |-> analysis.architectureType,
          complexity |-> analysis.complexity, domain |-> analysis.domain,
          currentStep |-> "identify_components", errors |-> <<>>, retryCount |-> 0])
  ELSE Caught(state, "Architecture analysis failed")

routeAfterAnalysis(state) ==
  IF HasErrors(state) THEN "handle_error"
  ELSE IF ~Has(state, "architectureType") THEN "handle_error"
  ELSE "identify_components"

\* identifyComponents(state), the LLM answering with components
identifyComponents(state, components) ==
  IF components.ok
  THEN Spread(state,
         [rawComponents |-> components.rawComponents, nodes |-> components.nodes,
          currentStep |-> "analyze_relationships", errors |-> <<>>, retryCount |-> 0])
  ELSE Caught(state, "Component identification failed")

routeAfterComponents(state) ==
  IF HasErrors(state) THEN "handle_error"
  ELSE IF ~Has(state, "nodes") \/ Len(state.nodes) = 0 THEN "handle_error"
  ELSE "select_layout"

\* analyzeRelationships(state), the LLM answering with relationships
analyzeRelationships(state, relationships) ==
  IF relationships.ok
  THEN Spread(state,
         [rawRelationships |-> relationships.rawRelationships,
          connections |-> relationships.connections,
          currentStep |-> "select_layout", errors |-> <<>>, retryCount |-> 0])
  ELSE Caught(state, "Relationship analysis failed")

routeAfterRelationships(state) ==
  IF HasErrors(state) THEN "handle_error"
  ELSE IF ~Has(state, "connections") THEN "handle_error"
  ELSE "select_layout"

\* selectLayout reads state.nodes.length and state.connections.length
\* outside any try block.
selectLayoutThrows(state) == ~Has(state, "nodes") \/ ~Has(state, "connections")

selectLayout(state) ==
  LET nodeCount == Len(state.nodes)
      connectionCount == Len(state.connections)
      chosen ==
        IF state.architectureType = "microservices" /\ nodeCount > GridThreshold
        THEN [layoutStrategy |-> "grid",
              layoutConfig |-> [columns |-> CeilSqrt(nodeCount),
                                spacing |-> JsNumber(120)]]
        ELSE IF state.architectureType = "layered"
        THEN [layoutStrategy |-> "layered",
              layoutConfig |-> [direction |-> "TB", layers |-> "auto",
                                spacing |-> [node |-> 100, layer |-> 150]]]
        ELSE IF 2 * connectionCount > 3 * nodeCount
        THEN [layoutStrategy |-> "grid",
              layoutConfig |-> [columns |-> (nodeCount + 2) \div 3,
                                spacing |-> [node |-> 100, rank |-> 100]]]
        ELSE [layoutStrategy |-> "hierarchical",
              layoutConfig |-> [direction |-> "TB",
                                spacing |-> [node |-> 100, rank |-> 120]]]
  IN Spread(state,
       chosen @@ [currentStep |-> "generate_dsl", errors |-> <<>>, retryCount |-> 0])

routeAfterLayout(state) ==
  IF HasErrors(state) THEN "handle_error"
  ELSE IF ~Has(state, "layoutStrategy") THEN "handle_error"
  ELSE "generate_dsl"

generateDSL(state) ==
  LET services == SelectSeq(state.nodes, LAMBDA n : n.type = "service")
      serviceNodes == [i \in Indices(services) |-> services[i].id]
      semanticDSL ==
        [nodes |-> state.nodes, connections |-> state.connections,
         layout |-> Spread([type |-> state.layoutStrategy], state.layoutConfig)]
          @@ Opt(state.architectureType = "microservices" /\ Len(serviceNodes) > 2,
                 "groups",
                 <<[id |-> "services", label |-> "Microservices",
                    contains |-> serviceNodes, type |-> "cluster"]>>)
  IN Spread(state,
       [semanticDSL |-> semanticDSL, currentStep |-> "render_diagram",
        errors |-> <<>>, retryCount |-> 0])

routeAfterDSL(state) ==
  IF HasErrors(state) THEN "handle_error"
  ELSE IF ~Has(state, "semanticDSL") THEN "handle_error"
  ELSE "render_diagram"

\* renderDiagram(state), generateDiagram(state.semanticDSL) on a new
\* generator having ended with outcome o
renderDiagram(state, o) ==
  IF o.pc = "returned"
  THEN Spread(state,
         [excalidrawData |-> o.result, currentStep |-> "completed",
          errors |-> <<>>, retryCount |-> 0])
  ELSE Caught(state, "Diagram rendering failed")

routeAfterRender(state) ==
  IF HasErrors(state) THEN "handle_error"
  ELSE IF ~Has(state, "excalidrawData") THEN "handle_error"
  ELSE "END"

handleErrorThrows(state) == state.retryCount >= maxRetries

\* handleError starting the retry count afresh
handleError_RetryCountReset(state) ==
  Spread(state, [errors |-> <<>>, retryCount |-> 0])

handleError(state) ==
  Spread(state, [errors |-> <<>>, retryCount |-> state.retryCount + 1])

routeAfterErrorThrows(state) == state.retryCount >= maxRetries

\* state.currentStep || 'analyze_architecture'
routeAfterError(state) ==
  IF Has(state, "currentStep") THEN state.currentStep ELSE "analyze_architecture"

\* The engine after node has run: the state is replaced and the edge
\* followed, unless the step count passes recursionLimit.
Routed(node, state, next, llm) ==
  [at |-> IF next # "END" /\ workflow.steps + 1 >= recursionLimit
          THEN "thrown" ELSE next,
   state |-> state,
   thrown |-> IF next # "END" /\ workflow.steps + 1 >= recursionLimit
              THEN "GraphRecursionError" ELSE "none",
   thrownBy |-> IF next # "END" /\ workflow.steps + 1 >= recursionLimit
                THEN "invoke" ELSE "none",
   steps |-> workflow.steps + 1,
   runs |-> Append(workflow.runs, node),
   llm |-> workflow.llm \o llm]

\* node, or its routing function by, threw error: invoke rejects, and
\* executeArchitectureWorkflow logs the error and rethrows it.
Rejected(node, by, error) ==
  [workflow EXCEPT !.at = "thrown", !.thrown = error, !.thrownBy = by,
                   !.steps = @ + 1, !.runs = Append(@, node)]

InitWorkflow ==
  /\ rev \in Revisions
  /\ input = NullObject
  /\ pc = "idle"
  /\ validated = NullObject
  /\ laidOut = NullObject
  /\ result = NullObject
  /\ thrown = "none"
  /\ idCounter = 0
  /\ now = 0
  /\ console = <<>>
  /\ calls = <<>>
  /\ layering = NullObject
  /\ \E description \in DescriptionSample :
        workflow = [at |-> "analyze_architecture",
                    state |-> createInitialState(description),
                    thrown |-> "none", thrownBy |-> "none", steps |-> 0,
                    runs |-> <<>>, llm |-> <<>>]

AnalyzeArchitecture ==
  /\ workflow.at = "analyze_architecture"
  /\ \E analysis \in {LlmFailed} \cup
        {[ok |-> TRUE, architectureType |-> a, complexity |-> "medium",
          domain |-> "web"] : a \in ArchitectureTypeSample} :
        workflow' = Routed("analyze_architecture",
                       analyzeArchitecture(workflow.state, analysis),
                       routeAfterAnalysis(analyzeArchitecture(workflow.state, analysis)),
                       <<IF analysis.ok THEN "ok" ELSE "failed">>)
  /\ UNCHANGED <<rev, input, pc, validated, laidOut, result, thrown, idCounter,
                 now, console, calls, layering>>

IdentifyComponents ==
  /\ workflow.at = "identify_components"
  /\ \E components \in {LlmFailed} \cup
        {[ok |-> TRUE, rawComponents |-> <<>>, nodes |-> ns] : ns \in ComponentLists} :
        workflow' = Routed("identify_components",
                       identifyComponents(workflow.state, components),
                       routeAfterComponents(identifyComponents(workflow.state, components)),
                       <<IF ~components.ok THEN "failed"
                         ELSE IF Len(components.nodes) = 0 THEN "empty" ELSE "ok">>)
  /\ UNCHANGED <<rev, input, pc, validated, laidOut, result, thrown, idCounter,
                 now, console, calls, layering>>

AnalyzeRelationships ==
  /\ workflow.at = "analyze_relationships"
  /\ \E relationships \in {LlmFailed} \cup
        {[ok |-> TRUE, rawRelationships |-> <<>>, connections |-> cs]
           : cs \in RelationshipLists} :
        workflow' = Routed("analyze_relationships",
                       analyzeRelationships(workflow.state, relationships),
                       routeAfterRelationships(
                         analyzeRelationships(workflow.state, relationships)),
                       <<IF relationships.ok THEN "ok" ELSE "failed">>)
  /\ UNCHANGED <<rev, input, pc, validated, laidOut, result, thrown, idCounter,
                 now, console, calls, layering>>

SelectLayout ==
  /\ workflow.at = "select_layout"
  /\ workflow' =
       IF selectLayoutThrows(workflow.state)
       THEN Rejected("select_layout", "select_layout", "TypeError")
       ELSE Routed("select_layout", selectLayout(workflow.state),
                   routeAfterLayout(selectLayout(workflow.state)), <<>>)
  /\ UNCHANGED <<rev, input, pc, validated, laidOut, result, thrown, idCounter,
                 now, console, calls, layering>>

GenerateDSL ==
  /\ workflow.at = "generate_dsl"
  /\ workflow' = Routed("generate_dsl", generateDSL(workflow.state),
                        routeAfterDSL(generateDSL(workflow.state)), <<>>)
  /\ UNCHANGED <<rev, input, pc, validated, laidOut, result, thrown, idCounter,
                 now, console, calls, layering>>

\* render_diagram, generateDiagram having ended with outcome o
Rendered(o) ==
  /\ workflow' = Routed("render_diagram", renderDiagram(workflow.state, o),
                        routeAfterRender(renderDiagram(workflow.state, o)), <<>>)
  /\ console' = console \o o.console

RenderDiagram ==
  /\ workflow.at = "render_diagram"
  /\ Rendered(Outcome(rev, workflow.state.semanticDSL, now, 0))
  /\ UNCHANGED <<rev, input, pc, validated, laidOut, result, thrown, idCounter,
                 now, calls, layering>>

HandleError ==
  /\ workflow.at = "handle_error"
  /\ workflow' =
       IF handleErrorThrows(workflow.state)
       THEN Rejected("handle_error", "handle_error",
                     "Workflow failed after 3 retries")
       ELSE IF routeAfterErrorThrows(handleError(workflow.state))
       THEN Rejected("handle_error", "routeAfterError",
                     "Workflow failed after 3 retries")
       ELSE Routed("handle_error", handleError(workflow.state),
                   routeAfterError(handleError(workflow.state)), <<>>)
  /\ UNCHANGED <<rev, input, pc, validated, laidOut, result, thrown, idCounter,
                 now, console, calls, layering>>

\* invoke resolved: executeArchitectureWorkflow returns result.excalidrawData,
\* or throws when there is none.
ExecuteReturns ==
  /\ workflow.at = "END"
  /\ IF Has(workflow.state, "excalidrawData")
     THEN /\ workflow' = [workflow EXCEPT !.at = "returned"]
          /\ result' = workflow.state.excalidrawData
     ELSE /\ workflow' = [workflow EXCEPT
                 !.at = "thrown", !.thrownBy = "executeArchitectureWorkflow",
                 !.thrown = "Workflow completed but no diagram was generated"]
          /\ result' = result
  /\ UNCHANGED <<rev, input, pc, validated, laidOut, thrown, idCounter,
                 now, console, calls, layering>>

NextWorkflow ==
  \/ AnalyzeArchitecture
  \/ IdentifyComponents
  \/ AnalyzeRelationships
  \/ SelectLayout
  \/ GenerateDSL
  \/ RenderDiagram
  \/ HandleError
  \/ ExecuteReturns

\* The engine runs the next node as soon as the last one has settled, and
\* every LLM call settles.
SpecWorkflow == InitWorkflow /\ [][NextWorkflow]_vars /\ WF_vars(NextWorkflow)

(***************************************************************************)
(* Vocabulary of the properties                                            *)
(***************************************************************************)
Returned == pc = "returned"

LaidOut == Has(laidOut, "nodes")

Elements == result.elements

ShapeTypes == {"rectangle", "ellipse", "diamond"}

IsShape(e) == e.type \in ShapeTypes

IsText(e) == e.type = "text"

IsArrow(e) == e.type = "arrow"

ShapeIndices == {i \in Indices(Elements) : IsShape(Elements[i])}

TextIndices == {i \in Indices(Elements) : IsText(Elements[i])}

ArrowIndices == {i \in Indices(Elements) : IsArrow(Elements[i])}

\* The mutual binding of a shape and a text: the text's containerId is the
\* shape's id and the shape's boundElements list exactly that text.
Bound(shape, text) ==
  /\ text.containerId = shape.id
  /\ shape.boundElements = <<[type |-> "text", id |-> text.id]>>

BoundTexts(i) == {j \in TextIndices : Bound(Elements[i], Elements[j])}

BoundShapes(j) == {i \in ShapeIndices : Bound(Elements[i], Elements[j])}

(***************************************************************************)
(* C1.  As claimed: in every Document returned by render every shape       *)
(* (group boxes included) has exactly one text bound to it, and every text *)
(* (group labels and connection labels included) is bound to exactly one   *)
(* shape.                                                                  *)
(***************************************************************************)
C1_AllBoundOneToOne ==
  Returned =>
    /\ \A i \in ShapeIndices : Cardinality(BoundTexts(i)) = 1
    /\ \A j \in TextIndices : Cardinality(BoundShapes(j)) = 1

(***************************************************************************)
(* C2.  As claimed: the elementId of every arrow's startBinding and        *)
(* endBinding is the id of a shape of the same Document.                   *)
(***************************************************************************)
BindsToShape(binding) ==
  /\ Has(binding, "elementId")
  /\ \E i \in ShapeIndices : Elements[i].id = binding.elementId

C2_ArrowsBindToShapes ==
  Returned =>
    \A a \in ArrowIndices :
       /\ BindsToShape(Elements[a].startBinding)
       /\ BindsToShape(Elements[a].endBinding)

(***************************************************************************)
(* C3.  The two anchor points of every connection whose from and to ids    *)
(* name positioned nodes lie exactly on the boundary of the from node's    *)
(* and of the to node's rectangle, under every layout type and direction.  *)
(***************************************************************************)
InsideOrOn(p, rect) ==
  /\ rect.x <= p.x /\ p.x <= rect.x + rect.width
  /\ rect.y <= p.y /\ p.y <= rect.y + rect.height

OnBoundary(p, rect) ==
  /\ InsideOrOn(p, rect)
  /\ \/ p.x = rect.x
     \/ p.x = rect.x + rect.width
     \/ p.y = rect.y
     \/ p.y = rect.y + rect.height

\* The connections of the layout both of whose ids name a positioned node
ResolvedConnections ==
  {i \in Indices(laidOut.connections) :
      /\ laidOut.connections[i].from \in NodeIds(laidOut.nodes)
      /\ laidOut.connections[i].to \in NodeIds(laidOut.nodes)}

C3_AnchorsOnBoundary ==
  LaidOut =>
    \A i \in ResolvedConnections :
       LET conn == laidOut.connections[i]
           nodeMap == NodeMap(laidOut.nodes)
       IN /\ OnBoundary(conn.fromPoint, nodeMap[conn.from])
          /\ OnBoundary(conn.toPoint, nodeMap[conn.to])

\* A layout with a self-connection and a connection anchored on the facing
\* left and right edges of two nodes.
C3_Witness ==
  /\ LaidOut
  /\ \E i, j \in ResolvedConnections :
        LET self == laidOut.connections[i]
            conn == laidOut.connections[j]
            nodeMap == NodeMap(laidOut.nodes)
        IN /\ self.from = self.to
           /\ conn.from # conn.to
           /\ conn.fromPoint.x = nodeMap[conn.from].x + nodeMap[conn.from].width
           /\ conn.toPoint.x = nodeMap[conn.to].x

(***************************************************************************)
(* C4.  As claimed: the arrow of every rendered connection starts at the   *)
(* connection's fromPoint (its x, y plus points[0]) and ends at its        *)
(* toPoint (its x, y plus points[1]).  Stated for the connections between  *)
(* two nodes; the k-th arrow of the Document is the k-th connection's.     *)
(***************************************************************************)
Arrows == SelectSeq(Elements, IsArrow)

ArrowStart(a) == [x |-> NAdd(a.x, a.points[1][1]), y |-> NAdd(a.y, a.points[1][2])]

ArrowEnd(a) == [x |-> NAdd(a.x, a.points[2][1]), y |-> NAdd(a.y, a.points[2][2])]

PointEq(p, q) == NumEq(p.x, q.x) /\ NumEq(p.y, q.y)

C4_ArrowGeometryIsAnchors ==
  Returned =>
    /\ Len(Arrows) = Len(laidOut.connections)
    /\ \A k \in ResolvedConnections :
          /\ PointEq(ArrowStart(Arrows[k]), laidOut.connections[k].fromPoint)
          /\ PointEq(ArrowEnd(Arrows[k]), laidOut.connections[k].toPoint)

(***************************************************************************)
(* C5.  As claimed: every input that passes ArchitectureSchema validation  *)
(* yields a Document: after validation generateDiagram never throws.       *)
(***************************************************************************)
Called == pc # "idle"

C5_ValidInputYieldsDocument ==
  (Called /\ ArchitectureValid(rev, input)) => Returned

(***************************************************************************)
(* C6.  As claimed: an input in which two nodes share an id (at top level  *)
(* or among nested child nodes) is rejected by validation: generateDiagram *)
(* throws and produces no layout and no Document.                          *)
(***************************************************************************)
RECURSIVE AllNodeIds(_)
AllNodeIds(nodes) ==
  Flatten([i \in Indices(nodes) |->
             <<nodes[i].id>> \o
               (IF Has(nodes[i], "nodes") THEN AllNodeIds(nodes[i].nodes) ELSE <<>>)])

DuplicateIds(ids) == \E i, j \in Indices(ids) : i < j /\ ids[i] = ids[j]

C6_DuplicateIdsRejected ==
  (Called /\ DuplicateIds(AllNodeIds(input.nodes))) =>
     /\ thrown = "ZodError"
     /\ ~LaidOut
     /\ ~Has(result, "elements")

(***************************************************************************)
(* C7.  As claimed: when a connection's from or to id names no node, the   *)
(* Document holds no arrow and no label for it, and the layout and the     *)
(* Document are those of the same input without the dangling connections.  *)
(***************************************************************************)
IsDangling(a, c) ==
  c.from \notin NodeIds(a.nodes) \/ c.to \notin NodeIds(a.nodes)

WithoutDangling(a) ==
  [a EXCEPT !.connections = SelectSeq(a.connections, LAMBDA c : ~IsDangling(a, c))]

HasDangling(a) == \E i \in Indices(a.connections) : IsDangling(a, a.connections[i])

\* The call ended as o says, with o's layout and o's Document.
SameLayoutAndDocument(o) ==
  /\ pc = o.pc
  /\ laidOut = o.laidOut
  /\ result = o.result

C7_DanglingConnectionDropped ==
  (Called /\ ArchitectureValid(rev, input) /\ HasDangling(input)) =>
     SameLayoutAndDocument(Outcome(rev, WithoutDangling(input), now, 0))

(***************************************************************************)
(* C8.  As claimed: whenever a dangling connection is dropped, a layout    *)
(* type without an algorithm is substituted or an empty group is omitted,  *)
(* the result handed to the caller carries a diagnostic entry for it.      *)
(***************************************************************************)
RecoveredCondition ==
  \/ Len(laidOut.connections) < Len(validated.connections)
  \/ Len(laidOut.groups) < Len(validated.groups)
  \/ Has(validated, "layout") /\ validated.layout.type = "force"

C8_DiagnosticsReturned ==
  (Returned /\ RecoveredCondition) =>
     /\ Has(result, "diagnostics")
     /\ Len(result.diagnostics) > 0

(***************************************************************************)
(* C9.  As claimed: for every layout.type other than hierarchical, grid    *)
(* and layered the pipeline does what it does for hierarchical on the same *)
(* input: same outcome, same layout, same Document.                        *)
(***************************************************************************)
ImplementedLayouts == {"hierarchical", "grid", "layered"}

GivenLayoutType(a) == Has(a, "layout") /\ Has(a.layout, "type")

AsHierarchical(a) == [a EXCEPT !.layout.type = "hierarchical"]

SameOutcome(o) ==
  /\ pc = o.pc
  /\ thrown = o.thrown
  /\ laidOut = o.laidOut
  /\ result = o.result

SameAsHierarchical == SameOutcome(Outcome(rev, AsHierarchical(input), now, 0))

NodeShapes ==
  SelectSeq(Elements,
            LAMBDA e : IsShape(e) /\ \E j \in TextIndices : Elements[j].containerId = e.id)

SameRectangle(e, node) ==
  /\ e.x = node.x /\ e.y = node.y
  /\ e.width = node.width /\ e.height = node.height

C10_EveryNodeExactlyOnce ==
  (LaidOut /\ ~DuplicateIds([i \in Indices(validated.nodes) |-> validated.nodes[i].id])) =>
     /\ Len(laidOut.nodes) = Len(validated.nodes)
     /\ \A i \in Indices(validated.nodes) :
           Cardinality({k \in Indices(laidOut.nodes) :
                           laidOut.nodes[k].id = validated.nodes[i].id}) = 1
     /\ Returned =>
           /\ Len(NodeShapes) = Len(laidOut.nodes)
           /\ \A k \in Indices(laidOut.nodes) :
                 SameRectangle(NodeShapes[k], laidOut.nodes[k])

\* A hierarchical layout of two nodes, one of them on a cycle that no root
\* reaches (a self-connection), so that it is placed by the overflow rank.
C10_Witness ==
  /\ Returned
  /\ ~GivenLayoutType(input)
  /\ Len(laidOut.nodes) = 2
  /\ laidOut.nodes[1].id # laidOut.nodes[2].id
  /\ Len(validated.connections) = 1
  /\ validated.connections[1].from = validated.connections[1].to
  /\ ResolvedConnections = {1}

(***************************************************************************)
(* C11  Grid layout of n >= 1 nodes uses ceil(sqrt(n)) columns and places  *)
(* the node at input index i in row floor(i / columns) and column          *)
(* i mod columns: the positioned nodes are in input order, all nodes of    *)
(* one column share one x and lie right of the columns before, and all     *)
(* nodes of one row share one y and lie below the rows before.             *)
(***************************************************************************)
LayoutTypeIs(type) ==
  Has(validated, "layout") /\ validated.layout.type = type

GridColumn(i, n) == (i - 1) % CeilSqrt(n)

GridRow(i, n) == (i - 1) \div CeilSqrt(n)

C11_GridRowMajor ==
  (LaidOut /\ LayoutTypeIs("grid")) =>
     LET nodes == laidOut.nodes
         n == Len(nodes)
     IN /\ n = Len(input.nodes)
        /\ \A i, j \in Indices(nodes) :
              /\ nodes[i].id = input.nodes[i].id
              /\ GridColumn(i, n) = GridColumn(j, n) => nodes[i].x = nodes[j].x
              /\ GridColumn(i, n) < GridColumn(j, n) => nodes[i].x < nodes[j].x
              /\ GridRow(i, n) = GridRow(j, n) => nodes[i].y = nodes[j].y
              /\ GridRow(i, n) < GridRow(j, n) => nodes[i].y < nodes[j].y

(***************************************************************************)
(* C12  Under layered layout, and under hierarchical layout when no node   *)
(* has zero incoming edges, ranks follow the type order actor < ui <       *)
(* gateway < service < queue < cache < database < external whatever the    *)
(* input order: the positioned nodes are the ranks in order, all nodes of  *)
(* one type share a rank, and a node of a later type has a higher rank     *)
(* than a node of an earlier type.                                         *)
(***************************************************************************)
LayoutType ==
  IF Has(validated, "layout") THEN validated.layout.type ELSE "hierarchical"

TypeRank(type) == CHOOSE k \in Indices(typeOrder) : typeOrder[k] = type

HasIncoming(a, id) ==
  \E i \in Indices(a.connections) :
     a.connections[i].to = id /\ a.connections[i].from \in NodeIds(a.nodes)

NoRoots ==
  \A i \in Indices(validated.nodes) : HasIncoming(validated, validated.nodes[i].id)

RankedByType ==
  /\ LaidOut
  /\ \/ LayoutType = "layered"
     \/ LayoutType = "hierarchical" /\ NoRoots

\* The ranks the layout ran with
RankLayers ==
  IF LayoutType = "layered" THEN GroupNodesByType(validated.nodes)
  ELSE AssignLayers(validated.nodes,
                    BuildDependencyGraph(validated.nodes, validated.connections))

IdsOf(nodes) == [i \in Indices(nodes) |-> nodes[i].id]

C12_RanksFollowTypeOrder ==
  RankedByType =>
     LET layers == RankLayers
     IN /\ IdsOf(laidOut.nodes) = IdsOf(Flatten(layers))
        /\ \A a, b \in Indices(layers) :
              \A i \in Indices(layers[a]), j \in Indices(layers[b]) :
                 /\ layers[a][i].type = layers[b][j].type => a = b
                 /\ TypeRank(layers[a][i].type) < TypeRank(layers[b][j].type)
                       => a < b

\* A hierarchical layout without roots whose input lists a database before
\* a service and an actor last.
C12_Witness ==
  /\ RankedByType
  /\ LayoutType = "hierarchical"
  /\ Len(input.nodes) >= 3
  /\ input.nodes[1].type = "database"
  /\ input.nodes[2].type = "service"
  /\ input.nodes[3].type = "actor"
  /\ IdsOf(laidOut.nodes) = <<"n3", "n2", "n1">>

(***************************************************************************)
(* C13  For every group with at least one member id that resolves to a     *)
(* positioned node, the positioned group's rectangle is the union bounding *)
(* box of its resolved members expanded by 20 units on each side, and the  *)
(* Document draws that box; member ids that do not resolve are ignored,    *)
(* and a group with no resolvable member has no box and no label.          *)
(***************************************************************************)
Range(seq) == {seq[i] : i \in Indices(seq)}

\* The positioned nodes the member ids of group g resolve to
ResolvedMembers(g) ==
  {i \in Indices(laidOut.nodes) : laidOut.nodes[i].id \in Range(g.contains)}

Least(S) == CHOOSE v \in S : \A w \in S : v <= w

Greatest(S) == CHOOSE v \in S : \A w \in S : v >= w

\* The union bounding box of the positioned nodes ms, expanded by 20
PaddedUnion(ms) ==
  LET nodes == laidOut.nodes
      minX == Least({nodes[i].x : i \in ms})
      minY == Least({nodes[i].y : i \in ms})
      maxX == Greatest({nodes[i].x + nodes[i].width : i \in ms})
      maxY == Greatest({nodes[i].y + nodes[i].height : i \in ms})
  IN [x |-> minX - Px(20), y |-> minY - Px(20),
      width |-> (maxX - minX) + Px(40), height |-> (maxY - minY) + Px(40)]

HasRectangle(e, rect) ==
  /\ e.x = rect.x
  /\ e.y = rect.y
  /\ e.width = rect.width
  /\ e.height = rect.height

PositionedGroups(g) ==
  {k \in Indices(laidOut.groups) : laidOut.groups[k].id = g.id}

GroupLabels(g) == {j \in TextIndices : Elements[j].text = g.label}

ResolvableGroups ==
  {k \in Indices(validated.groups) : ResolvedMembers(validated.groups[k]) # {}}

C13_GroupBoxIsPaddedUnion ==
  (LaidOut /\ ~DuplicateIds(AllNodeIds(input.nodes))) =>
     /\ \A k \in Indices(validated.groups) :
           LET g == validated.groups[k]
               ms == ResolvedMembers(g)
           IN IF ms # {}
              THEN /\ \E pg \in PositionedGroups(g) :
                         HasRectangle(laidOut.groups[pg], PaddedUnion(ms))
                   /\ Returned =>
                         /\ \E i \in ShapeIndices :
                               HasRectangle(Elements[i], PaddedUnion(ms))
                         /\ GroupLabels(g) # {}
              ELSE /\ PositionedGroups(g) = {}
                   /\ Returned => GroupLabels(g) = {}
     /\ Len(laidOut.groups) = Cardinality(ResolvableGroups)
     /\ Returned =>
           Cardinality(ShapeIndices)
              = Len(laidOut.nodes) + Cardinality(ResolvableGroups)

(***************************************************************************)
(* C15  In hierarchical layout with direction TB, for two nodes u and s of *)
(* any types and the single connection u -> s: u is rank 0 and s rank 1,   *)
(* u's rectangle is above s's (u.y + u.height <= s.y), and the arrow is    *)
(* anchored on u's bottom edge and on s's top edge.                        *)
(***************************************************************************)
Direction ==
  IF Has(validated, "layout") THEN validated.layout.direction ELSE "TB"

DefaultSpacing == ~(Has(validated, "layout") /\ Has(validated.layout, "spacing"))

\* Two nodes and one connection between them, hierarchical with the default
\* spacing, laid out.
TwoNodesOneConnection ==
  /\ LaidOut
  /\ LayoutType = "hierarchical"
  /\ DefaultSpacing
  /\ Len(validated.nodes) = 2
  /\ validated.nodes[1].id # validated.nodes[2].id
  /\ Len(validated.connections) = 1
  /\ validated.connections[1].from # validated.connections[1].to
  /\ {validated.connections[1].from, validated.connections[1].to}
        = NodeIds(validated.nodes)

PositionedNode(id) ==
  laidOut.nodes[CHOOSE i \in Indices(laidOut.nodes) : laidOut.nodes[i].id = id]

OnBottomEdge(p, rect) ==
  /\ p.y = rect.y + rect.height
  /\ rect.x <= p.x
  /\ p.x <= rect.x + rect.width

OnTopEdge(p, rect) ==
  /\ p.y = rect.y
  /\ rect.x <= p.x
  /\ p.x <= rect.x + rect.width

RECURSIVE NodesBefore(_, _)
NodesBefore(layers, l) ==
  IF l <= 1 THEN 0 ELSE Len(layers[l - 1]) + NodesBefore(layers, l - 1)

\* The positioned nodes of rank l, in rank order
RankNodes(l) ==
  [k \in Indices(RankLayers[l]) |-> laidOut.nodes[NodesBefore(RankLayers, l) + k]]

CentredOnX(nodes) ==
  /\ \A i, j \in Indices(nodes) : i < j => nodes[i].x < nodes[j].x
  /\ Least({nodes[i].x : i \in Indices(nodes)})
        = Px(CanvasWidth)
            - Greatest({nodes[i].x + nodes[i].width : i \in Indices(nodes)})

CentredOnY(nodes) ==
  /\ \A i, j \in Indices(nodes) : i < j => nodes[i].y < nodes[j].y
  /\ Least({nodes[i].y : i \in Indices(nodes)})
        = Px(CanvasHeight)
            - Greatest({nodes[i].y + nodes[i].height : i \in Indices(nodes)})

Ranked == LaidOut /\ LayoutType # "grid"

C16_RanksCentred ==
  Ranked =>
     \A l \in Indices(RankLayers) :
        IF Direction \in {"TB", "BT"} THEN CentredOnX(RankNodes(l))
        ELSE CentredOnY(RankNodes(l))

(***************************************************************************)
(* C17  BT and RL mirror the rank axis of TB and LR: for the same          *)
(* architecture and spacing each node has under BT the x it has under TB   *)
(* and y_BT = canvas.height - (y_TB + height), and under RL the y it has   *)
(* under LR and x_RL = canvas.width - (x_LR + width).                      *)
(***************************************************************************)
WithDirection(a, d) == [a EXCEPT !.layout.direction = d]

\* The nodes laid out are those of layout other reflected top to bottom.
MirrorsVertically(other) ==
  /\ Has(other, "nodes")
  /\ Len(other.nodes) = Len(laidOut.nodes)
  /\ \A i \in Indices(laidOut.nodes) :
        /\ laidOut.nodes[i].id = other.nodes[i].id
        /\ laidOut.nodes[i].x = other.nodes[i].x
        /\ laidOut.nodes[i].y
              = Px(CanvasHeight) - (other.nodes[i].y + other.nodes[i].height)

\* The nodes laid out are those of layout other reflected left to right.
MirrorsHorizontally(other) ==
  /\ Has(other, "nodes")
  /\ Len(other.nodes) = Len(laidOut.nodes)
  /\ \A i \in Indices(laidOut.nodes) :
        /\ laidOut.nodes[i].id = other.nodes[i].id
        /\ laidOut.nodes[i].y = other.nodes[i].y
        /\ laidOut.nodes[i].x
              = Px(CanvasWidth) - (other.nodes[i].x + other.nodes[i].width)

C17_DirectionMirrors ==
  /\ (Ranked /\ Direction = "BT") =>
        MirrorsVertically(Outcome(rev, WithDirection(input, "TB"), now, 0).laidOut)
  /\ (Ranked /\ Direction = "RL") =>
        MirrorsHorizontally(Outcome(rev, WithDirection(input, "LR"), now, 0).laidOut)

(***************************************************************************)
(* C14  Layout is deterministic and keeps no state across calls: any two   *)
(* calls on the same unchanged architecture, on the tool's long-lived      *)
(* generator or on generators of their own, end alike and yield the same   *)
(* layout: the same x, y, width, height for every node in the same order,  *)
(* the same anchor points and the same group rectangles.                   *)
(***************************************************************************)
CallLaidOut(c) == Has(c.laidOut, "nodes")

CallReturned(c) == c.pc = "returned"

\* The primitives of all Documents: <<call, index>>
Primitives ==
  {<<i, k>> \in Indices(calls) \X (1..200) :
      CallReturned(calls[i]) /\ k <= Len(calls[i].result.elements)}

IdOfPrimitive(p) == calls[p[1]].result.elements[p[2]].id

C18_IdsProcessUnique ==
  \A p, q \in Primitives : p # q => IdOfPrimitive(p) # IdOfPrimitive(q)

(***************************************************************************)
(* C19  The renderer's identifier counter is scoped per invocation: a call *)
(* on a generator that produced earlier Documents starts from the counter  *)
(* value a call on a fresh instance starts from, so the counter suffixes   *)
(* of a Document's ids do not depend on what the instance rendered before: *)
(* calls that read the same clock value return the same Document.          *)
(***************************************************************************)
FreshCounter == 0

C19_CounterScopedPerCall ==
  \A i, j \in Indices(calls) :
     /\ calls[i].start = FreshCounter
     /\ (CallReturned(calls[i]) /\ CallReturned(calls[j])
           /\ calls[i].at = calls[j].at)
          => calls[i].result = calls[j].result

(***************************************************************************)
(* C20  The validate -> layout -> render pipeline has no suspension point: *)
(* when several generateDiagram calls are started concurrently on one      *)
(* shared generator, each call has run to its end before another begins,   *)
(* so the counter values drawn for one Document form one contiguous range  *)
(* (one value per primitive, in order) and no two calls read the same      *)
(* counter value: each call starts where the call before it ended.         *)
(***************************************************************************)
ToolCalls == {i \in Indices(calls) : calls[i].via = "tool"}

IdPrefixes ==
  {"node_", "text_", "conn_", "arrow_", "label_", "group_", "group_label_"}

\* The ids of the Document of call c carry the counter values
\* c.start + 1 .. c.end, one each, in order.
ContiguousIds(c) ==
  /\ Len(c.result.elements) = c.end - c.start
  /\ \A k \in Indices(c.result.elements) :
        \E prefix \in IdPrefixes :
           c.result.elements[k].id
              = prefix \o ToString(c.at) \o "_" \o ToString(c.start + k)

\* The tool call before call i, or 0 when i is the first
ToolCallBefore(i) ==
  IF \E j \in ToolCalls : j < i
  THEN CHOOSE j \in ToolCalls : j < i /\ \A k \in ToolCalls : k < i => k <= j
  ELSE 0

C20_CallsRunToCompletion ==
  /\ \A i \in ToolCalls :
        /\ calls[i].pc \in {"returned", "thrown"}
        /\ calls[i].start <= calls[i].end
        /\ calls[i].start
              = IF ToolCallBefore(i) = 0 THEN 0 ELSE calls[ToolCallBefore(i)].end
        /\ CallReturned(calls[i]) => ContiguousIds(calls[i])
  /\ \A i, j \in ToolCalls : i < j => calls[i].end <= calls[j].start
  /\ \A i \in ToolCalls : calls[i].end <= idCounter

\* Two calls on the tool, the second begun while the first is suspended at
\* its await, each returning a Document of several primitives.
C20_Witness ==
  /\ Len(calls) = 2
  /\ ToolCalls = {1, 2}
  /\ calls[1].status = "awaiting"
  /\ calls[2].status = "awaiting"
  /\ CallReturned(calls[1])
  /\ CallReturned(calls[2])
  /\ Len(calls[1].result.elements) >= 4
  /\ calls[2].start = calls[1].end

(***************************************************************************)
(* C21  For every rendered node without children, whatever its width,      *)
(* height and label length, its text is centred horizontally and           *)
(* vertically in its shape's rectangle (the centre of the text box is the  *)
(* centre of the shape) and the text's containerId is the shape's id.      *)
(***************************************************************************)
\* Twice the centre of a rectangle
CentreX2(e) == 2 * e.x + e.width

CentreY2(e) == 2 * e.y + e.height

\* Shape i and text j draw the positioned node: the shape is the node's
\* rectangle, the text is the node's label contained in the shape.
DrawsNode(i, j, node) ==
  /\ SameRectangle(Elements[i], node)
  /\ Elements[j].text = node.label
  /\ Elements[j].containerId = Elements[i].id

C21_NodeTextCentred ==
  Returned =>
     \A n \in Indices(laidOut.nodes) :
        /\ \E i \in ShapeIndices, j \in TextIndices :
              DrawsNode(i, j, laidOut.nodes[n])
        /\ \A i \in ShapeIndices, j \in TextIndices :
              DrawsNode(i, j, laidOut.nodes[n]) =>
                 /\ CentreX2(Elements[j]) = CentreX2(Elements[i])
                 /\ CentreY2(Elements[j]) = CentreY2(Elements[i])

\* A gateway whose label is wider than the shape, so that the text is cut to
\* the shape's width less 20.
C21_Witness ==
  /\ Returned
  /\ Len(laidOut.nodes) = 1
  /\ laidOut.nodes[1].type = "gateway"
  /\ Len(laidOut.nodes[1].label) * 9 > laidOut.nodes[1].style.width - 20
  /\ \E i \in ShapeIndices, j \in TextIndices :
        /\ DrawsNode(i, j, laidOut.nodes[1])
        /\ Elements[j].width = Elements[i].width - Px(20)

(***************************************************************************)
(* C23  In hierarchical layout, when at least one node has zero incoming   *)
(* edges: rank 0 is exactly the set of zero-in-degree nodes; every node    *)
(* reachable from them has the rank at which the breadth-first traversal   *)
(* first reaches it, its shortest edge distance from a rank-0 node; and    *)
(* every node never visited is in one final overflow rank that comes       *)
(* after all breadth-first ranks.                                          *)
(***************************************************************************)
Ids == NodeIds(validated.nodes)

\* The connections between two nodes
Edges ==
  {<<validated.connections[i].from, validated.connections[i].to>> :
      i \in {k \in Indices(validated.connections) :
                /\ validated.connections[k].from \in Ids
                /\ validated.connections[k].to \in Ids}}

Roots == {id \in Ids : \A e \in Edges : e[2] # id}

\* The nodes within k edges of a root
RECURSIVE Within(_)
Within(k) ==
  IF k = 0 THEN Roots
  ELSE Within(k - 1) \cup {e[2] : e \in {f \in Edges : f[1] \in Within(k - 1)}}

Reachable == Within(Cardinality(Ids))

Distance(id) == CHOOSE k \in 0..Cardinality(Ids) :
                   id \in Within(k) /\ \A j \in 0..(k - 1) : id \notin Within(j)

\* The ranks (counted from 0) that hold a node with this id
RanksOf(id) ==
  {l - 1 : l \in {k \in Indices(RankLayers) : id \in Range(IdsOf(RankLayers[k]))}}

UniqueIds == ~DuplicateIds(IdsOf(validated.nodes))

HierarchicalWithRoots ==
  /\ LaidOut
  /\ LayoutType = "hierarchical"
  /\ UniqueIds
  /\ Roots # {}

RECURSIVE After(_, _)
After(id, k) ==
  IF k = 0 THEN {}
  ELSE LET near == After(id, k - 1) \cup {id}
       IN {e[2] : e \in {f \in Edges : f[1] \in near}}

Acyclic == \A id \in Ids : id \notin After(id, Cardinality(Ids))

C24_LayersAreTopological ==
  (LaidOut /\ LayoutType = "hierarchical" /\ UniqueIds /\ Acyclic) =>
     \A e \in Edges :
        \A lu \in RanksOf(e[1]), lv \in RanksOf(e[2]) : lu < lv

(***************************************************************************)
(* C26  Every layer returned by hierarchical layer assignment is a         *)
(* non-empty list of nodes, so that consecutive occupied ranks are one     *)
(* rank step apart and no blank rank band is left; also when a node is     *)
(* both in the current frontier and a successor of another node of the     *)
(* same frontier.                                                          *)
(***************************************************************************)
C26_NoEmptyLayer ==
  (LaidOut /\ LayoutType = "hierarchical") =>
     \A l \in Indices(RankLayers) : Len(RankLayers[l]) > 0

(***************************************************************************)
(* C25  With the static style table and the default spacing, no two        *)
(* distinct positioned node rectangles overlap (their interiors are        *)
(* disjoint) in any layout: grid for any mix of node types, hierarchical   *)
(* and layered for any direction, any number of ranks and any mix of node  *)
(* types within a rank and across consecutive ranks.                       *)
(***************************************************************************)
\* The interiors of the two rectangles meet.
Overlap(a, b) ==
  /\ a.x < b.x + b.width
  /\ b.x < a.x + a.width
  /\ a.y < b.y + b.height
  /\ b.y < a.y + a.height

C25_NoOverlap ==
  (LaidOut /\ DefaultSpacing) =>
     \A i, j \in Indices(laidOut.nodes) :
        i # j => ~Overlap(laidOut.nodes[i], laidOut.nodes[j])

(***************************************************************************)
(* C22  Hierarchical layer assignment terminates for every finite node and *)
(* connection set, cycles, self-connections, duplicate and dangling        *)
(* connections included: at every moment of the breadth-first loop each    *)
(* node is in at most one layer, once, the visited set is exactly the      *)
(* nodes placed so far, and assignLayers eventually returns.               *)
(***************************************************************************)
PlacedIds == LET placed == Flatten(layering.layers)
             IN [i \in Indices(placed) |-> placed[i].id]

PlacedAtMostOnce ==
  \A i, j \in Indices(PlacedIds) : PlacedIds[i] = PlacedIds[j] => i = j

VisitedArePlaced ==
  layering.pc = "while" => layering.visited = Range(PlacedIds)

C22_AssignLayersTerminates ==
  /\ [](PlacedAtMostOnce /\ VisitedArePlaced)
  /\ <>(layering.pc = "returned")

\* assignLayers has returned three layers for a graph with a connection
\* between two nodes given twice and a self-connection, as n1 -> n2, n1 -> n2,
\* n3 -> n3: n2 is queued twice and placed once, n3 is never queued.
C22_Witness ==
  /\ layering.pc = "returned"
  /\ Len(layering.layers) = 3
  /\ \E i, j \in Indices(input.connections) :
        /\ i # j
        /\ input.connections[i].from # input.connections[i].to
        /\ input.connections[i].from = input.connections[j].from
        /\ input.connections[i].to = input.connections[j].to
  /\ \E i \in Indices(input.connections) :
        input.connections[i].from = input.connections[i].to

(***************************************************************************)
(* Workflow vocabulary                                                     *)
(***************************************************************************)
StepNodes ==
  {"analyze_architecture", "identify_components", "analyze_relationships",
   "select_layout", "generate_dsl", "render_diagram"}

\* How many times node has run
Runs(node) ==
  Cardinality({i \in Indices(workflow.runs) : workflow.runs[i] = node})

\* The node whose result sent the workflow to the handle_error run at i
SentToHandleError(i) == workflow.runs[i - 1]

RetriesExhausted ==
  /\ workflow.at = "thrown"
  /\ workflow.thrown = "Workflow failed after 3 retries"

(***************************************************************************)
(* C27  The workflow allows maxRetries = 3 retries: when it throws         *)
(* 'Workflow failed after 3 retries', the step that failed last has run    *)
(* four times, once and three retries; a step that has failed fewer times  *)
(* is run again.                                                           *)
(***************************************************************************)
C27_ThreeRetries ==
  RetriesExhausted =>
     Runs(SentToHandleError(Len(workflow.runs))) = 1 + maxRetries

(***************************************************************************)
(* C28  After handle_error the workflow runs the step whose result sent it *)
(* to handle_error, whether that step caught an error or its routing       *)
(* function rejected what it returned.                                     *)
(***************************************************************************)
C28_RetriesTheFailedStep ==
  \A i \in 2..(Len(workflow.runs) - 1) :
     workflow.runs[i] = "handle_error" =>
        workflow.runs[i + 1] = SentToHandleError(i)

(***************************************************************************)
(* C29  The workflow terminates: executeArchitectureWorkflow eventually    *)
(* returns or throws.  When invoke resolves, excalidrawData is set and     *)
(* currentStep is completed, and what is returned is excalidrawData.  No   *)
(* step alternates with handle_error without end: a step runs at most      *)
(* twice, and the run stays below the engine's recursion limit.            *)
(***************************************************************************)
Settled == workflow.at \in {"returned", "thrown"}

ResolvedWithDiagram ==
  workflow.at \in {"END", "returned"} =>
     /\ Has(workflow.state, "excalidrawData")
     /\ workflow.state.currentStep = "completed"
     /\ workflow.at = "returned" => result = workflow.state.excalidrawData

BoundedRetries ==
  /\ \A node \in StepNodes : Runs(node) <= 2
  /\ workflow.steps < recursionLimit

C29_WorkflowTerminates ==
  /\ <>Settled
  /\ [](ResolvedWithDiagram /\ BoundedRetries)

\* executeArchitectureWorkflow has returned a Document after the workflow
\* went through handle_error and a failed LLM call.
C29_Witness ==
  /\ workflow.at = "returned"
  /\ Runs("handle_error") >= 2
  /\ \E i \in Indices(workflow.llm) : workflow.llm[i] = "failed"

(***************************************************************************)
(* C30  When every LLM call returns well-formed output with at least one   *)
(* component, the workflow never enters handle_error and never throws,     *)
(* connections is defined when select_layout reads it, and the DSL built   *)
(* by select_layout and generate_dsl passes ArchitectureSchema validation  *)
(* in render_diagram.                                                      *)
(***************************************************************************)
WellFormedLlm ==
  \A i \in Indices(workflow.llm) : workflow.llm[i] = "ok"

C30_WellFormedRunsStraight ==
  WellFormedLlm =>
     /\ Runs("handle_error") = 0
     /\ workflow.at # "thrown"
     /\ workflow.at = "select_layout" => Has(workflow.state, "connections")
     /\ workflow.at = "render_diagram" =>
           ArchitectureValid(rev, workflow.state.semanticDSL)

====
